---- MODULE Spec2Model ----
(***************************************************************************)
(* Model of the invoice-qc-service rule engine (invoice_qc/validator.py),  *)
(* of the duplicate oracle it consults (invoice_qc/database.py), of the    *)
(* PDF extraction (invoice_qc/extractor.py) and of the callers of the      *)
(* engine: POST /validate-json (invoice_qc/api/routes.py) and the validate *)
(* and process commands (invoice_qc/cli.py).                               *)
(*                                                                         *)
(* Python values are modelled as tagged records, strings as sequences of   *)
(* one-character strings, amounts as integers counted in thousandths       *)
(* (Decimal values with at most three fractional digits), calendar dates   *)
(* as the integer yyyymmdd.  A call either returns a result or raises; the *)
(* name of the exception is kept in the outcome.                           *)
(***************************************************************************)
EXTENDS Integers, Sequences, FiniteSets, TLC

(***************************************************************************)
(* Bounds of the model.                                                    *)
(***************************************************************************)
MaxEdits == 2
MaxBatch == 3
MaxTicks == 1
MaxFiles == 2
MaxProcs == 2
MaxIds == 3

(***************************************************************************)
(* Characters and the str methods the validator calls.                     *)
(***************************************************************************)
DigitChars == <<"0", "1", "2", "3", "4", "5", "6", "7", "8", "9">>
LowerChars == <<"a", "b", "c", "d", "e", "f", "g", "h", "i", "j", "k", "l", "m",
                "n", "o", "p", "q", "r", "s", "t", "u", "v", "w", "x", "y", "z">>
UpperChars == <<"A", "B", "C", "D", "E", "F", "G", "H", "I", "J", "K", "L", "M",
                "N", "O", "P", "Q", "R", "S", "T", "U", "V", "W", "X", "Y", "Z">>

DigitOf == [c \in {DigitChars[k] : k \in 1..10} |->
              CHOOSE k \in 0..9 : DigitChars[k + 1] = c]
UpperOf == [c \in {LowerChars[k] : k \in 1..26} |->
              UpperChars[CHOOSE k \in 1..26 : LowerChars[k] = c]]

IsDigit(c) == c \in DOMAIN DigitOf
DigitVal(c) == DigitOf[c]
IsLower(c) == c \in DOMAIN UpperOf
UpperSet == {UpperChars[k] : k \in 1..26}
IsUpper(c) == c \in UpperSet
IsSpace(c) == c = " "

\* str.upper()
upper(s) == [i \in 1..Len(s) |-> IF IsLower(s[i]) THEN UpperOf[s[i]] ELSE s[i]]

\* str.strip()
strip(s) ==
  LET nonSpace == {i \in 1..Len(s) : ~IsSpace(s[i])}
  IN  IF nonSpace = {} THEN <<>>
      ELSE LET lo == CHOOSE i \in nonSpace : \A j \in nonSpace : i <= j
               hi == CHOOSE i \in nonSpace : \A j \in nonSpace : i >= j
           IN  SubSeq(s, lo, hi)

\* str.replace(c, '')
replace(s, c) == SelectSeq(s, LAMBDA x : x # c)

\* str.isalnum()
isalnum(s) ==
  /\ Len(s) > 0
  /\ \A i \in 1..Len(s) : IsDigit(s[i]) \/ IsLower(s[i]) \/ IsUpper(s[i])

AllDigits(s) == \A i \in 1..Len(s) : IsDigit(s[i])

RECURSIVE DigitsVal(_)
DigitsVal(s) ==
  IF Len(s) = 0 THEN 0
  ELSE 10 * DigitsVal(SubSeq(s, 1, Len(s) - 1)) + DigitVal(s[Len(s)])

RECURSIVE NatText(_)
\* str(n) of a natural number
NatText(n) ==
  IF n < 10 THEN <<DigitChars[n + 1]>>
  ELSE NatText(n \div 10) \o <<DigitChars[(n % 10) + 1]>>

IntText(n) == IF n < 0 THEN <<"-">> \o NatText(0 - n) ELSE NatText(n)

RECURSIVE Pad(_, _)
\* zero-padded to width w
Pad(s, w) == IF Len(s) >= w THEN s ELSE Pad(<<"0">> \o s, w)

Abs(x) == IF x < 0 THEN 0 - x ELSE x

(***************************************************************************)
(* Python values.  t is the runtime type, n the number carried by a        *)
(* numeric or date value, s the characters of a str.                       *)
(*   absent  the key is not in the mapping      none   None / JSON null    *)
(*   str     str                                int    int                 *)
(*   float   float, n in thousandths            dec    decimal.Decimal,    *)
(*   date    datetime.date, n = yyyymmdd               n in thousandths    *)
(***************************************************************************)
Val(t, n, s) == [t |-> t, n |-> n, s |-> s]
Absent == Val("absent", 0, <<>>)
None == Val("none", 0, <<>>)
PyStr(s) == Val("str", 0, s)
PyInt(n) == Val("int", n, <<>>)
PyFloat(n) == Val("float", n, <<>>)
PyDecimal(n) == Val("dec", n, <<>>)
PyDate(n) == Val("date", n, <<>>)

\* dict.get(key): None when the key is absent
get(d, key) == IF d[key].t = "absent" THEN None ELSE d[key]

\* dict.get(key, default)
get_default(d, key, default) == IF d[key].t = "absent" THEN default ELSE d[key]

\* bool(value)
truthy(v) ==
  CASE v.t \in {"absent", "none"} -> FALSE
    [] v.t = "str" -> Len(v.s) > 0
    [] v.t \in {"int", "float", "dec"} -> v.n # 0
    [] OTHER -> TRUE

isNumber(v) == v.t \in {"int", "float", "dec"}

\* the numeric value of an int, float or Decimal, in thousandths
Thousandths(v) == IF v.t = "int" THEN v.n * 1000 ELSE v.n

(***************************************************************************)
(* Calendar dates.                                                         *)
(***************************************************************************)
MkDate(y, m, d) == y * 10000 + m * 100 + d
YearOf(n) == n \div 10000
MonthOf(n) == (n \div 100) % 100
DayOf(n) == n % 100

IsLeap(y) == (y % 4 = 0 /\ y % 100 # 0) \/ y % 400 = 0

DaysInMonth(y, m) ==
  CASE m \in {1, 3, 5, 7, 8, 10, 12} -> 31
    [] m \in {4, 6, 9, 11} -> 30
    [] OTHER -> IF IsLeap(y) THEN 29 ELSE 28

NextDay(n) ==
  LET y == YearOf(n)
      m == MonthOf(n)
      d == DayOf(n)
  IN  IF d < DaysInMonth(y, m) THEN MkDate(y, m, d + 1)
      ELSE IF m < 12 THEN MkDate(y, m + 1, 1)
      ELSE MkDate(y + 1, 1, 1)

\* date.isoformat(), which is also str(date)
isoformat(n) ==
  Pad(NatText(YearOf(n)), 4) \o <<"-">> \o Pad(NatText(MonthOf(n)), 2)
    \o <<"-">> \o Pad(NatText(DayOf(n)), 2)

\* a date of the given year, month and day, where there is one
DateOfParts(y, m, d) ==
  IF y >= 1 /\ m \in 1..12 /\ d >= 1 /\ d <= DaysInMonth(y, m)
  THEN [ok |-> TRUE, n |-> MkDate(y, m, d)]
  ELSE [ok |-> FALSE, n |-> 0]

\* datetime.fromisoformat(s).date() for a date-only string YYYY-MM-DD:
\* [ok |-> TRUE, n |-> the date], or ok = FALSE where it raises ValueError.
fromisoformat(s) ==
  IF /\ Len(s) = 10
     /\ s[5] = "-"
     /\ s[8] = "-"
     /\ AllDigits(SubSeq(s, 1, 4))
     /\ AllDigits(SubSeq(s, 6, 7))
     /\ AllDigits(SubSeq(s, 9, 10))
  THEN DateOfParts(DigitsVal(SubSeq(s, 1, 4)), DigitsVal(SubSeq(s, 6, 7)),
                   DigitsVal(SubSeq(s, 9, 10)))
  ELSE [ok |-> FALSE, n |-> 0]

(***************************************************************************)
(* decimal.Decimal(text): optional sign, digits with an optional point,    *)
(* surrounding whitespace ignored.  [ok |-> TRUE, n |-> thousandths], or   *)
(* ok = FALSE where the constructor raises decimal.InvalidOperation.       *)
(* The strings of the model carry at most three fractional digits and no   *)
(* exponent, underscore, "Infinity" or "NaN".                              *)
(***************************************************************************)
DecimalOfParts(whole, frac, negative) ==
  IF /\ AllDigits(whole)
     /\ AllDigits(frac)
     /\ Len(whole) + Len(frac) > 0
     /\ Len(frac) <= 3
  THEN [ok |-> TRUE,
        n |-> (IF negative THEN -1 ELSE 1)
                * (DigitsVal(whole) * 1000
                     + DigitsVal(frac \o [i \in 1..(3 - Len(frac)) |-> "0"]))]
  ELSE [ok |-> FALSE, n |-> 0]

\* the position of the first point of body, Len(body) + 1 when it has none
PointAt(body) ==
  IF \E i \in 1..Len(body) : body[i] = "."
  THEN CHOOSE i \in 1..Len(body) :
         body[i] = "." /\ \A j \in 1..(i - 1) : body[j] # "."
  ELSE Len(body) + 1

DecimalOfBody(body, point, negative) ==
  DecimalOfParts(SubSeq(body, 1, point - 1), SubSeq(body, point + 1, Len(body)),
                 negative)

DecimalOfStripped(s) ==
  IF Len(s) > 0 /\ s[1] \in {"-", "+"}
  THEN DecimalOfBody(Tail(s), PointAt(Tail(s)), s[1] = "-")
  ELSE DecimalOfBody(s, PointAt(s), FALSE)

DecimalOfText(text) == DecimalOfStripped(strip(text))

\* the digits a float prints after the point, f its thousandths
FractionText(f) ==
  IF f % 100 = 0 THEN NatText(f \div 100)
  ELSE IF f % 10 = 0 THEN Pad(NatText(f \div 10), 2)
  ELSE Pad(NatText(f), 3)

\* str(value).  A float prints its shortest decimal form with at least one
\* fractional digit; a Decimal of the model is one written in that same form.
str(v) ==
  CASE v.t = "str" -> v.s
    [] v.t = "int" -> IntText(v.n)
    [] v.t = "date" -> isoformat(v.n)
    [] v.t = "none" -> <<"N", "o", "n", "e">>
    [] v.t = "absent" -> <<"N", "o", "n", "e">>
    [] OTHER -> (IF v.n < 0 THEN <<"-">> ELSE <<>>)
                  \o NatText(Abs(v.n) \div 1000) \o <<".">>
                  \o FractionText(Abs(v.n) % 1000)

(***************************************************************************)
(* Invoice records.  An invoice is a mapping from the recognized field     *)
(* names to values; line_items is [t, n, items] with t one of absent,      *)
(* none, list, int and items the sequence of line items; a line item is    *)
(* [t, quantity, unit_price, line_total] with t = "dict" for a mapping and *)
(* t = "str" for an element that is no mapping.                            *)
(***************************************************************************)
LineItems(t, n, items) == [t |-> t, n |-> n, items |-> items]
NoLineItems == LineItems("absent", 0, <<>>)
Item(quantity, unit_price, line_total) ==
  [t |-> "dict", quantity |-> quantity, unit_price |-> unit_price,
   line_total |-> line_total]
NotAMapping == [t |-> "str", quantity |-> Absent, unit_price |-> Absent,
                line_total |-> Absent]

\* bool(line_items)
truthyItems(li) ==
  CASE li.t \in {"absent", "none"} -> FALSE
    [] li.t = "list" -> Len(li.items) > 0
    [] OTHER -> li.n # 0

(***************************************************************************)
(* Findings.  A message is its template m, the field name f interpolated   *)
(* into it ("" when none) and the values v interpolated into it; two       *)
(* messages are the same string exactly when the three agree.              *)
(***************************************************************************)
Msg(m, f, v) == [m |-> m, f |-> f, v |-> v]

\* The ValidationResult under construction; exc names the exception that
\* ended the call, "" while none was raised; lookups lists the triples
\* the call has passed to Database.check_duplicate, written the rows the
\* call has added to the invoices table.
NewResult ==
  [exc |-> "", errors |-> <<>>, warnings |-> <<>>, lookups |-> <<>>, written |-> {}]
AddError(result, msg) == [result EXCEPT !.errors = Append(@, msg)]
AddWarning(result, msg) == [result EXCEPT !.warnings = Append(@, msg)]
Raise(result, exc) == [result EXCEPT !.exc = exc]

\* statement sequencing: a raised exception skips what follows
Then(result, Step(_)) == IF result.exc # "" THEN result ELSE Step(result)

(***************************************************************************)
(* InvoiceValidator._to_decimal.  [t |-> "none"]: returns None;            *)
(* [t |-> "dec", n]: returns the Decimal; [t |-> "raise"]: the call ends   *)
(* in decimal.InvalidOperation, which the except clause does not name.     *)
(***************************************************************************)
DecimalResult(d) ==
  IF d.ok THEN [t |-> "dec", n |-> d.n] ELSE [t |-> "raise", n |-> 0]

to_decimal(value) ==
  IF value.t \in {"absent", "none"} THEN [t |-> "none", n |-> 0]
  ELSE IF value.t = "dec" THEN [t |-> "dec", n |-> value.n]
  ELSE DecimalResult(DecimalOfText(str(value)))

(***************************************************************************)
(* InvoiceValidator._check_required_fields                                 *)
(***************************************************************************)
required_fields ==
  <<"invoice_number", "invoice_date", "seller_name", "buyer_name", "currency",
    "net_total", "tax_amount", "gross_total">>

check_required_field(result, field, value) ==
  IF value.t = "none" THEN AddError(result, Msg("Missing required field", field, <<>>))
  ELSE IF value.t = "str" /\ strip(value.s) = <<>>
    THEN AddError(result, Msg("Empty required field", field, <<>>))
  ELSE IF isNumber(value) /\ value.n < 0
    THEN AddError(result, Msg("Negative value in required field", field, <<>>))
  ELSE result

RECURSIVE required_loop(_, _, _)
required_loop(invoice, result, k) ==
  IF k > Len(required_fields) THEN result
  ELSE required_loop(
         invoice,
         check_required_field(result, required_fields[k], get(invoice, required_fields[k])),
         k + 1)

check_required_fields(invoice, result) == required_loop(invoice, result, 1)

(***************************************************************************)
(* InvoiceValidator._check_formats                                         *)
(***************************************************************************)
allowed_currencies ==
  {<<"E", "U", "R">>, <<"U", "S", "D">>, <<"I", "N", "R">>, <<"G", "B", "P">>}

DateResult(p) == [ok |-> p.ok, v |-> PyDate(p.n)]

\* ParsedDate that takes a value that is no str for unparseable
ParsedDate_of_text(value) ==
  IF value.t = "str" THEN DateResult(fromisoformat(value.s))
  ELSE [ok |-> FALSE, v |-> value]

\* The parsed date of a supplied value: fromisoformat for a str (ok = FALSE
\* where it raises ValueError), the value itself otherwise.
ParsedDate(value) ==
  IF value.t = "str" THEN DateResult(fromisoformat(value.s))
  ELSE [ok |-> TRUE, v |-> value]

\* a < b: defined between two dates and between two numbers; TypeError
\* (ok = FALSE) for every other pair of types of the model.
LessThan(a, b) ==
  IF a.t = "date" /\ b.t = "date" THEN [ok |-> TRUE, lt |-> a.n < b.n]
  ELSE IF isNumber(a) /\ isNumber(b)
    THEN [ok |-> TRUE, lt |-> Thousandths(a) < Thousandths(b)]
  ELSE [ok |-> FALSE, lt |-> FALSE]

\* invoice_date_finding with the future test written >=: an invoice dated
\* today is reported as a future one
invoice_date_finding_inclusive(result, invoice_date, parsed_date, today) ==
  IF ~truthy(invoice_date) THEN result
  ELSE IF ~parsed_date.ok \/ ~LessThan(PyDate(today), parsed_date.v).ok
    THEN AddError(result, Msg("Invalid invoice_date format", "", <<invoice_date>>))
  ELSE IF ~LessThan(parsed_date.v, PyDate(today)).lt
    THEN AddError(result, Msg("Invoice date cannot be in the future", "", <<>>))
  ELSE result

invoice_date_finding(result, invoice_date, parsed_date, today) ==
  IF ~truthy(invoice_date) THEN result
  ELSE IF ~parsed_date.ok \/ ~LessThan(PyDate(today), parsed_date.v).ok
    THEN AddError(result, Msg("Invalid invoice_date format", "", <<invoice_date>>))
  ELSE IF LessThan(PyDate(today), parsed_date.v).lt
    THEN AddError(result, Msg("Invoice date cannot be in the future", "", <<>>))
  ELSE result

check_invoice_date(invoice, result, today) ==
  invoice_date_finding(result, get(invoice, "invoice_date"),
                       ParsedDate(get(invoice, "invoice_date")), today)

due_date_finding(result, invoice_date, due_date, parsed_invoice, parsed_due) ==
  IF ~(truthy(due_date) /\ truthy(invoice_date)) THEN result
  ELSE IF ~parsed_due.ok \/ ~parsed_invoice.ok
          \/ ~LessThan(parsed_due.v, parsed_invoice.v).ok
    THEN AddError(result, Msg("Invalid due_date format", "", <<due_date>>))
  ELSE IF LessThan(parsed_due.v, parsed_invoice.v).lt
    THEN AddError(result, Msg("Due date cannot be before invoice date", "", <<>>))
  ELSE result

check_due_date(invoice, result) ==
  due_date_finding(result, get(invoice, "invoice_date"), get(invoice, "due_date"),
                   ParsedDate(get(invoice, "invoice_date")),
                   ParsedDate(get(invoice, "due_date")))

currency_finding(result, currency) ==
  IF ~truthy(currency) THEN result
  ELSE IF currency.t # "str" THEN Raise(result, "AttributeError")
  ELSE IF upper(currency.s) \notin allowed_currencies
    THEN AddError(result, Msg("Invalid currency", "", <<currency>>))
  ELSE result

check_currency(invoice, result) == currency_finding(result, get(invoice, "currency"))

tax_id_finding(result, tax_id, who) ==
  IF ~truthy(tax_id) THEN result
  ELSE IF tax_id.t = "date" THEN Raise(result, "TypeError")
  ELSE IF tax_id.t # "str" THEN Raise(result, "AttributeError")
  ELSE IF ~isalnum(replace(replace(tax_id.s, "-"), " "))
    THEN AddWarning(result, Msg("tax ID format may be invalid", who, <<tax_id>>))
  ELSE result

check_tax_id(invoice, result, field, who) ==
  tax_id_finding(result, get(invoice, field), who)

check_formats(invoice, result, today) ==
  Then(Then(Then(check_due_date(invoice, check_invoice_date(invoice, result, today)),
                 LAMBDA r : check_currency(invoice, r)),
            LAMBDA r : check_tax_id(invoice, r, "seller_tax_id", "Seller")),
       LAMBDA r : check_tax_id(invoice, r, "buyer_tax_id", "Buyer"))

(***************************************************************************)
(* InvoiceValidator._check_business_rules.  Products of two amounts are    *)
(* counted in millionths, so that no digit is lost.                        *)
(***************************************************************************)
tolerance == 10

\* Rule 1 with the tolerance test written >=: a difference of exactly the
\* tolerance is reported
check_totals_inclusive(result, net_total, tax_amount, gross_total) ==
  IF net_total.t = "dec" /\ tax_amount.t = "dec" /\ gross_total.t = "dec"
     /\ Abs((net_total.n + tax_amount.n) - gross_total.n) >= tolerance
  THEN AddError(result,
                Msg("Total calculation mismatch", "",
                    <<PyDecimal(net_total.n), PyDecimal(tax_amount.n),
                      PyDecimal(gross_total.n),
                      PyDecimal(net_total.n + tax_amount.n)>>))
  ELSE result

\* Rule 1: net + tax = gross
check_totals(result, net_total, tax_amount, gross_total) ==
  IF net_total.t = "dec" /\ tax_amount.t = "dec" /\ gross_total.t = "dec"
     /\ Abs((net_total.n + tax_amount.n) - gross_total.n) > tolerance
  THEN AddError(result,
                Msg("Total calculation mismatch", "",
                    <<PyDecimal(net_total.n), PyDecimal(tax_amount.n),
                      PyDecimal(gross_total.n),
                      PyDecimal(net_total.n + tax_amount.n)>>))
  ELSE result

\* the loop of Rule 2 from item k on: [exc, sum]
RECURSIVE sum_loop(_, _, _)
sum_next(items, k, line_items_sum, item_total) ==
  IF item_total.t = "raise" THEN [exc |-> "InvalidOperation", sum |-> line_items_sum]
  ELSE sum_loop(items, k + 1,
                IF item_total.t = "dec" /\ item_total.n # 0
                THEN line_items_sum + item_total.n
                ELSE line_items_sum)

sum_loop(items, k, line_items_sum) ==
  IF k > Len(items) THEN [exc |-> "", sum |-> line_items_sum]
  ELSE IF items[k].t # "dict" THEN [exc |-> "AttributeError", sum |-> line_items_sum]
  ELSE sum_next(items, k, line_items_sum, to_decimal(get(items[k], "line_total")))

line_items_sum_finding(result, s, net_total) ==
  IF s.exc # "" THEN Raise(result, s.exc)
  ELSE IF Abs(s.sum - net_total.n) > tolerance
    THEN AddWarning(result,
                    Msg("Line items sum does not match net total", "",
                        <<PyDecimal(s.sum), PyDecimal(net_total.n)>>))
  ELSE result

\* Rule 2: line items sum against the net total
check_line_items_sum(result, line_items, net_total) ==
  IF ~(truthyItems(line_items) /\ net_total.t # "none") THEN result
  ELSE IF line_items.t # "list" THEN Raise(result, "TypeError")
  ELSE line_items_sum_finding(result, sum_loop(line_items.items, 1, 0), net_total)

amount_fields == <<"net_total", "tax_amount", "gross_total">>

\* negative_finding that reports a negative amount as a warning
negative_finding_as_warning(result, field, value) ==
  IF value.t = "raise" THEN Raise(result, "InvalidOperation")
  ELSE IF value.t = "dec" /\ value.n < 0
    THEN AddWarning(result,
                    Msg("Negative amount not allowed", field, <<PyDecimal(value.n)>>))
  ELSE result

negative_finding(result, field, value) ==
  IF value.t = "raise" THEN Raise(result, "InvalidOperation")
  ELSE IF value.t = "dec" /\ value.n < 0
    THEN AddError(result,
                  Msg("Negative amount not allowed", field, <<PyDecimal(value.n)>>))
  ELSE result

\* Rule 3: negative amounts
RECURSIVE negative_loop(_, _, _)
negative_loop(invoice, result, k) ==
  IF k > Len(amount_fields) \/ result.exc # "" THEN result
  ELSE negative_loop(
         invoice,
         negative_finding(result, amount_fields[k],
                          to_decimal(get(invoice, amount_fields[k]))),
         k + 1)

quantity_finding(result, idx, q, unit_price, line_total) ==
  IF ~q.ok THEN Raise(result, "InvalidOperation")
  ELSE IF Abs(q.n * unit_price.n - line_total.n * 1000) > tolerance * 1000
    THEN AddWarning(result,
                    Msg("Line item: quantity * unit_price != line_total", "",
                        <<PyInt(idx + 1)>>))
  ELSE result

line_item_finding(result, idx, quantity, unit_price, line_total) ==
  IF unit_price.t = "raise" \/ line_total.t = "raise"
  THEN Raise(result, "InvalidOperation")
  ELSE IF ~(truthy(quantity) /\ unit_price.t = "dec" /\ unit_price.n # 0
            /\ line_total.t = "dec" /\ line_total.n # 0)
    THEN result
  ELSE quantity_finding(result, idx, DecimalOfText(str(quantity)), unit_price,
                        line_total)

\* Rule 4, one item: quantity * unit_price against line_total
check_line_item(result, item, idx) ==
  IF item.t # "dict" THEN Raise(result, "AttributeError")
  ELSE line_item_finding(result, idx, get(item, "quantity"),
                         to_decimal(get(item, "unit_price")),
                         to_decimal(get(item, "line_total")))

RECURSIVE line_item_loop(_, _, _)
line_item_loop(result, items, k) ==
  IF k > Len(items) \/ result.exc # "" THEN result
  ELSE line_item_loop(check_line_item(result, items[k], k - 1), items, k + 1)

\* Rule 4: enumerate(line_items)
check_line_item_totals(result, line_items) ==
  CASE line_items.t = "absent" -> result
    [] line_items.t = "list" -> line_item_loop(result, line_items.items, 1)
    [] OTHER -> Raise(result, "TypeError")

business_rules(invoice, result, net_total, tax_amount, gross_total) ==
  IF "raise" \in {net_total.t, tax_amount.t, gross_total.t}
  THEN Raise(result, "InvalidOperation")
  ELSE Then(Then(Then(check_totals(result, net_total, tax_amount, gross_total),
                      LAMBDA r : check_line_items_sum(r, invoice["line_items"], net_total)),
                 LAMBDA r : negative_loop(invoice, r, 1)),
            LAMBDA r : check_line_item_totals(r, invoice["line_items"]))

check_business_rules(invoice, result) ==
  business_rules(invoice, result, to_decimal(get(invoice, "net_total")),
                 to_decimal(get(invoice, "tax_amount")),
                 to_decimal(get(invoice, "gross_total")))

(***************************************************************************)
(* InvoiceValidator._check_anomalies                                       *)
(***************************************************************************)
high_amount_threshold == 1000000000

AddWarningIf(result, condition, msg) ==
  IF condition THEN AddWarning(result, msg) ELSE result

\* check_high_amount with the threshold test written >=: a gross total equal
\* to the threshold is reported
check_high_amount_inclusive(result, gross_total) ==
  IF gross_total.t = "raise" THEN Raise(result, "InvalidOperation")
  ELSE AddWarningIf(result,
                    gross_total.t = "dec" /\ gross_total.n # 0
                      /\ gross_total.n >= high_amount_threshold,
                    Msg("Unusually high gross total", "",
                        <<PyDecimal(gross_total.n), PyDecimal(high_amount_threshold)>>))

check_high_amount(result, gross_total) ==
  IF gross_total.t = "raise" THEN Raise(result, "InvalidOperation")
  ELSE AddWarningIf(result,
                    gross_total.t = "dec" /\ gross_total.n # 0
                      /\ gross_total.n > high_amount_threshold,
                    Msg("Unusually high gross total", "",
                        <<PyDecimal(gross_total.n), PyDecimal(high_amount_threshold)>>))

check_missing_optional(invoice, result) ==
  AddWarningIf(
    AddWarningIf(
      AddWarningIf(
        AddWarningIf(result, ~truthy(get(invoice, "due_date")),
                     Msg("Due date is missing", "", <<>>)),
        ~truthy(get(invoice, "seller_tax_id")),
        Msg("Seller tax ID is missing", "", <<>>)),
      ~truthy(get(invoice, "buyer_tax_id")),
      Msg("Buyer tax ID is missing", "", <<>>)),
    ~truthyItems(invoice["line_items"]),
    Msg("No line items found in invoice", "", <<>>))

check_anomalies(invoice, result) ==
  Then(check_high_amount(result, to_decimal(get(invoice, "gross_total"))),
       LAMBDA r : check_missing_optional(invoice, r))

(***************************************************************************)
(* The store (Database).  The invoices table is the set of the stored      *)
(* (invoice_number, seller_name, invoice_date) triples, each column with   *)
(* the TEXT affinity the table declares; available says whether            *)
(* sqlite3.connect succeeds.                                               *)
(***************************************************************************)
\* the types sqlite3 binds as a statement parameter
bindable(v) == v.t \in {"str", "int", "float", "date"}

Row(invoice_number, seller_name, invoice_date) ==
  <<str(invoice_number), str(seller_name), str(invoice_date)>>

\* check_duplicate as a lookup that registers the triple it is asked about
check_duplicate_registering(stored, connects, invoice_number, seller_name, invoice_date) ==
  IF ~connects THEN [raised |-> TRUE, dup |-> FALSE, written |-> {}]
  ELSE IF ~(bindable(invoice_number) /\ bindable(seller_name) /\ bindable(invoice_date))
    THEN [raised |-> FALSE, dup |-> FALSE, written |-> {}]
  ELSE [raised |-> FALSE,
        dup |-> Row(invoice_number, seller_name, invoice_date) \in stored,
        written |-> {Row(invoice_number, seller_name, invoice_date)}]

\* Database.check_duplicate: [raised, dup, written].  The connection is opened
\* outside the try block; a failing query is answered False.  The statement
\* is a SELECT and the connection is closed without a commit: no row is
\* written.
check_duplicate(stored, connects, invoice_number, seller_name, invoice_date) ==
  IF ~connects THEN [raised |-> TRUE, dup |-> FALSE, written |-> {}]
  ELSE IF ~(bindable(invoice_number) /\ bindable(seller_name) /\ bindable(invoice_date))
    THEN [raised |-> FALSE, dup |-> FALSE, written |-> {}]
  ELSE [raised |-> FALSE,
        dup |-> Row(invoice_number, seller_name, invoice_date) \in stored,
        written |-> {}]

(***************************************************************************)
(* InvoiceValidator._check_duplicates                                      *)
(***************************************************************************)
\* the invoice date as the lookup receives it
date_text(invoice_date) ==
  IF invoice_date.t = "str" THEN invoice_date ELSE PyStr(str(invoice_date))

\* duplicate_finding without the try block: a lookup that raises ends the call
duplicate_finding_unguarded(result, invoice_number, seller_name, invoice_date, answer) ==
  IF answer.raised THEN Raise(result, "OperationalError")
  ELSE IF answer.dup
    THEN AddWarning(result,
                    Msg("Duplicate invoice detected", "",
                        <<invoice_number, seller_name, invoice_date>>))
  ELSE result

\* duplicate_finding that stores the triple it has looked up
duplicate_finding_storing(result, invoice_number, seller_name, invoice_date, answer) ==
  IF ~answer.raised /\ answer.dup
  THEN AddWarning(result,
                  Msg("Duplicate invoice detected", "",
                      <<invoice_number, seller_name, invoice_date>>))
  ELSE IF ~answer.raised /\ bindable(invoice_number) /\ bindable(seller_name)
          /\ bindable(invoice_date)
    THEN [result EXCEPT !.written =
            @ \cup {Row(invoice_number, seller_name, invoice_date)}]
  ELSE result

duplicate_finding(result, invoice_number, seller_name, invoice_date, answer) ==
  IF ~answer.raised /\ answer.dup
  THEN AddWarning([result EXCEPT !.written = @ \cup answer.written],
                  Msg("Duplicate invoice detected", "",
                      <<invoice_number, seller_name, invoice_date>>))
  ELSE [result EXCEPT !.written = @ \cup answer.written]

\* duplicate_lookup reporting a hit as an error, as the check did before it
\* was changed to a warning
duplicate_lookup_as_error(result, stored, connects, invoice_number, seller_name, invoice_date) ==
  IF check_duplicate(stored, connects, invoice_number, seller_name, invoice_date).dup
  THEN AddError([result EXCEPT !.lookups =
                   Append(@, <<invoice_number, seller_name, invoice_date>>)],
                Msg("Duplicate invoice detected", "",
                    <<invoice_number, seller_name, invoice_date>>))
  ELSE [result EXCEPT !.lookups =
          Append(@, <<invoice_number, seller_name, invoice_date>>)]

duplicate_lookup(result, stored, connects, invoice_number, seller_name, invoice_date) ==
  duplicate_finding([result EXCEPT !.lookups =
                       Append(@, <<invoice_number, seller_name, invoice_date>>)],
                    invoice_number, seller_name, invoice_date,
                    check_duplicate(stored, connects, invoice_number, seller_name,
                                    invoice_date))

check_duplicates(invoice, result, stored, connects) ==
  IF ~(truthy(get(invoice, "invoice_number")) /\ truthy(get(invoice, "seller_name"))
       /\ truthy(get(invoice, "invoice_date")))
  THEN result
  ELSE duplicate_lookup(result, stored, connects, get(invoice, "invoice_number"),
                        get(invoice, "seller_name"),
                        date_text(get(invoice, "invoice_date")))

(***************************************************************************)
(* InvoiceValidator.validate.  The outcome of a call: status "ok" with the *)
(* ValidationResult returned, or status "raise" with the exception.        *)
(***************************************************************************)
Unknown == <<"U", "N", "K", "N", "O", "W", "N", "_">>
NoFile == <<"N", "O", "_", "F", "I", "L", "E">>

\* invoice_id_of that takes a number for blank only when it is the empty string
invoice_id_of_unstripped(invoice_number, source_file) ==
  IF invoice_number.t = "none" \/ (invoice_number.t = "str" /\ invoice_number.s = <<>>)
  THEN Unknown \o str(source_file)
  ELSE str(invoice_number)

invoice_id_of(invoice_number, source_file) ==
  IF invoice_number.t = "none"
     \/ (invoice_number.t = "str" /\ strip(invoice_number.s) = <<>>)
  THEN Unknown \o str(source_file)
  ELSE str(invoice_number)

\* run_checks with the business rules checked before the formats
run_checks_business_first(invoice, today_, stored, connects) ==
  Then(Then(Then(Then(check_required_fields(invoice, NewResult),
                      LAMBDA r : check_business_rules(invoice, r)),
                 LAMBDA r : check_formats(invoice, r, today_)),
            LAMBDA r : check_anomalies(invoice, r)),
       LAMBDA r : check_duplicates(invoice, r, stored, connects))

run_checks(invoice, today_, stored, connects) ==
  Then(Then(Then(Then(check_required_fields(invoice, NewResult),
                      LAMBDA r : check_formats(invoice, r, today_)),
                 LAMBDA r : check_business_rules(invoice, r)),
            LAMBDA r : check_anomalies(invoice, r)),
       LAMBDA r : check_duplicates(invoice, r, stored, connects))

\* validation_result with the verdict gated by the warnings too
validation_result_gated(invoice, result) ==
  IF result.exc # ""
  THEN [status |-> "raise", exc |-> result.exc, invoice_id |-> <<>>,
        is_valid |-> FALSE, errors |-> <<>>, warnings |-> <<>>,
        lookups |-> result.lookups, written |-> result.written]
  ELSE [status |-> "ok", exc |-> "", lookups |-> result.lookups,
        written |-> result.written,
        invoice_id |-> invoice_id_of(get(invoice, "invoice_number"),
                                     get_default(invoice, "source_file", PyStr(NoFile))),
        is_valid |-> Len(result.errors) = 0 /\ Len(result.warnings) = 0,
        errors |-> result.errors, warnings |-> result.warnings]

validation_result(invoice, result) ==
  IF result.exc # ""
  THEN [status |-> "raise", exc |-> result.exc, invoice_id |-> <<>>,
        is_valid |-> FALSE, errors |-> <<>>, warnings |-> <<>>,
        lookups |-> result.lookups, written |-> result.written]
  ELSE [status |-> "ok", exc |-> "", lookups |-> result.lookups,
        written |-> result.written,
        invoice_id |-> invoice_id_of(get(invoice, "invoice_number"),
                                     get_default(invoice, "source_file", PyStr(NoFile))),
        is_valid |-> Len(result.errors) = 0, errors |-> result.errors,
        warnings |-> result.warnings]

validate(invoice, today_, stored, connects) ==
  validation_result(invoice, run_checks(invoice, today_, stored, connects))

(***************************************************************************)
(* InvoiceValidator.validate_batch.  error_counts is a function from the   *)
(* error messages counted so far to their counts (the defaultdict).        *)
(***************************************************************************)
\* increment that records a message without counting its repetitions
increment_once(error_counts, error) ==
  [e \in DOMAIN error_counts \cup {error} |->
     IF e = error THEN 1 ELSE error_counts[e]]

increment(error_counts, error) ==
  IF error \in DOMAIN error_counts
  THEN [error_counts EXCEPT ![error] = @ + 1]
  ELSE [e \in DOMAIN error_counts \cup {error} |->
          IF e = error THEN 1 ELSE error_counts[e]]

RECURSIVE count_errors(_, _, _)
count_errors(error_counts, errors, k) ==
  IF k > Len(errors) THEN error_counts
  ELSE count_errors(increment(error_counts, errors[k]), errors, k + 1)

\* ValidationResult.model_dump()
model_dump(r) ==
  [invoice_id |-> r.invoice_id, is_valid |-> r.is_valid, errors |-> r.errors,
   warnings |-> r.warnings]

NoCounts == [e \in {} |-> 0]

NoSummary ==
  [total_invoices |-> 0, valid_invoices |-> 0, invalid_invoices |-> 0,
   error_counts |-> NoCounts]

valid_count(results) == Cardinality({i \in 1..Len(results) : results[i].is_valid})

\* the rows the calls so far have added to the invoices table
writes(results) == UNION {results[i].written : i \in 1..Len(results)}

\* batch_report with invalid_invoices taken to be the number of distinct
\* error messages
batch_report_by_messages(results, error_counts) ==
  [status |-> "ok", exc |-> "",
   summary |-> [total_invoices |-> Len(results),
                valid_invoices |-> valid_count(results),
                invalid_invoices |-> Cardinality(DOMAIN error_counts),
                error_counts |-> error_counts],
   results |-> [i \in 1..Len(results) |-> model_dump(results[i])],
   written |-> writes(results)]

batch_report(results, error_counts) ==
  [status |-> "ok", exc |-> "",
   summary |-> [total_invoices |-> Len(results),
                valid_invoices |-> valid_count(results),
                invalid_invoices |-> Len(results) - valid_count(results),
                error_counts |-> error_counts],
   results |-> [i \in 1..Len(results) |-> model_dump(results[i])],
   written |-> writes(results)]

RECURSIVE batch_loop(_, _, _, _, _, _, _)
\* batch_next collecting the results newest first
batch_next_newest_first(invoices, k, results, error_counts, today_, stored, connects, result) ==
  IF result.status = "raise"
  THEN [status |-> "raise", exc |-> result.exc, summary |-> NoSummary,
        results |-> <<>>, written |-> writes(results) \cup result.written]
  ELSE batch_loop(invoices, k + 1, <<result>> \o results,
                  count_errors(error_counts, result.errors, 1),
                  today_, stored \cup result.written, connects)

batch_next(invoices, k, results, error_counts, today_, stored, connects, result) ==
  IF result.status = "raise"
  THEN [status |-> "raise", exc |-> result.exc, summary |-> NoSummary,
        results |-> <<>>, written |-> writes(results) \cup result.written]
  ELSE batch_loop(invoices, k + 1, Append(results, result),
                  count_errors(error_counts, result.errors, 1),
                  today_, stored \cup result.written, connects)

batch_loop(invoices, k, results, error_counts, today_, stored, connects) ==
  IF k > Len(invoices) THEN batch_report(results, error_counts)
  ELSE batch_next(invoices, k, results, error_counts, today_, stored, connects,
                  validate(invoices[k], today_, stored, connects))

validate_batch(invoices, today_, stored, connects) ==
  batch_loop(invoices, 1, <<>>, NoCounts, today_, stored, connects)

(***************************************************************************)
(* Database.save_invoice, as far as the stored triples go: the row is      *)
(* inserted when the connection opens, the record serializes to JSON, the  *)
(* parameters bind, the NOT NULL columns are supplied and the triple is    *)
(* not stored yet.                                                         *)
(***************************************************************************)
json_serializable(invoice) ==
  /\ \A f \in DOMAIN invoice \ {"line_items"} : invoice[f].t \notin {"dec", "date"}
  /\ LET li == invoice["line_items"]
     IN  \A i \in 1..Len(li.items) :
           \A f \in {"quantity", "unit_price", "line_total"} :
             li.items[i][f].t \notin {"dec", "date"}

insert_columns ==
  <<"invoice_number", "invoice_date", "seller_name", "buyer_name", "currency",
    "net_total", "tax_amount", "gross_total">>

\* the triple the UNIQUE constraint reads of a record
triple_of(invoice_data) ==
  Row(get(invoice_data, "invoice_number"), get(invoice_data, "seller_name"),
      get(invoice_data, "invoice_date"))

\* the parameters of the INSERT are built and bound
insert_binds(invoice_data) ==
  /\ json_serializable(invoice_data)
  /\ \A i \in 1..Len(insert_columns) :
       get(invoice_data, insert_columns[i]).t = "none"
         \/ bindable(get(invoice_data, insert_columns[i]))

\* the NOT NULL columns are supplied
not_null(invoice_data) ==
  \A f \in {"invoice_number", "invoice_date", "seller_name", "buyer_name"} :
    get(invoice_data, f).t # "none"

save_invoice(stored, connects, invoice_data) ==
  IF connects /\ insert_binds(invoice_data) /\ not_null(invoice_data)
  THEN stored \cup {triple_of(invoice_data)}
  ELSE stored

(***************************************************************************)
(* The invoices table with its row ids.  A store is [table, seq]: table    *)
(* maps the id of each row to the triple of the row, seq is the largest id *)
(* the table has given out (AUTOINCREMENT never gives an id again).        *)
(***************************************************************************)
EmptyTable == [i \in {} |-> <<>>]
EmptyStore == [table |-> EmptyTable, seq |-> 0]

Range(f) == {f[x] : x \in DOMAIN f}

\* the ids of the rows that hold the triple
ids_of(table_, row) == {i \in DOMAIN table_ : table_[i] = row}

\* UNIQUE(invoice_number, seller_name, invoice_date) rejects the row
unique_conflict(table_, invoice_data) == ids_of(table_, triple_of(invoice_data)) # {}

\* the row joins the table under the next id
inserted(table_, id, row) ==
  [i \in DOMAIN table_ \cup {id} |-> IF i = id THEN row ELSE table_[i]]

\* the except clause for IntegrityError: the id of the first row the SELECT
\* finds (a NULL parameter equals no column), -1 when it finds none
existing_id(table_, invoice_data) ==
  IF \/ get(invoice_data, "invoice_number").t = "none"
     \/ get(invoice_data, "seller_name").t = "none"
     \/ get(invoice_data, "invoice_date").t = "none"
     \/ ids_of(table_, triple_of(invoice_data)) = {}
  THEN -1
  ELSE CHOOSE i \in ids_of(table_, triple_of(invoice_data)) :
         \A j \in ids_of(table_, triple_of(invoice_data)) : i <= j

\* Database.save_invoice from the call to the return, with no other writer
\* at work: [raised, id, store].  The connection is opened outside the try
\* block.
save_invoice_call(db, connects, invoice_data) ==
  IF ~connects THEN [raised |-> TRUE, id |-> 0, store |-> db]
  ELSE IF ~insert_binds(invoice_data) THEN [raised |-> FALSE, id |-> -1, store |-> db]
  ELSE IF ~not_null(invoice_data) \/ unique_conflict(db.table, invoice_data)
    THEN [raised |-> FALSE, id |-> existing_id(db.table, invoice_data), store |-> db]
  ELSE [raised |-> FALSE, id |-> db.seq + 1,
        store |-> [table |-> inserted(db.table, db.seq + 1, triple_of(invoice_data)),
                   seq |-> db.seq + 1]]

(***************************************************************************)
(* String literals of the model's inputs.                                  *)
(***************************************************************************)
INV_001 == <<"I", "N", "V", "-", "0", "0", "1">>
D2024_01_14 == <<"2", "0", "2", "4", "-", "0", "1", "-", "1", "4">>
D2024_01_15 == <<"2", "0", "2", "4", "-", "0", "1", "-", "1", "5">>
D2024_01_16 == <<"2", "0", "2", "4", "-", "0", "1", "-", "1", "6">>
D2024_02_15 == <<"2", "0", "2", "4", "-", "0", "2", "-", "1", "5">>
D2024_02_30 == <<"2", "0", "2", "4", "-", "0", "2", "-", "3", "0">>
D15_01_2024 == <<"1", "5", "/", "0", "1", "/", "2", "0", "2", "4">>
Soon == <<"s", "o", "o", "n">>
ABC_Corp == <<"A", "B", "C", " ", "C", "o", "r", "p">>
XYZ_Ltd == <<"X", "Y", "Z", " ", "L", "t", "d">>
TAX123 == <<"T", "A", "X", "1", "2", "3">>
TAX456 == <<"T", "A", "X", "4", "5", "6">>
GB_12_3 == <<"G", "B", "-", "1", "2", " ", "3">>
Hash == <<"1", "2", "#", "4", "5">>
Hyphen == <<"-">>
A_1 == <<"A", "_", "1">>
USD == <<"U", "S", "D">>
usd == <<"u", "s", "d">>
Eur == <<"E", "u", "r">>
XYZ == <<"X", "Y", "Z">>
SpaceUSD == <<" ", "U", "S", "D">>
Empty == <<>>
Blank == <<" ">>
Blanks == <<" ", " ">>
abc == <<"a", "b", "c">>
T1000_00 == <<"1", "0", "0", "0", ".", "0", "0">>
Minus1000 == <<"-", "1", "0", "0", "0">>
T180 == <<"1", "8", "0">>
T1_180_00 == <<"1", ",", "1", "8", "0", ".", "0", "0">>
Padded1180 == <<" ", "1", "1", "8", "0", " ">>
T125_5 == <<"1", "2", "5", ".", "5">>
ten == <<"t", "e", "n">>
a_pdf == <<"a", ".", "p", "d", "f">>

(***************************************************************************)
(* The records the model validates: the sample invoice of the test suite   *)
(* (tests/conftest.py, sample_invoice) with at most MaxEdits of its fields *)
(* replaced by another value of the field.                                 *)
(***************************************************************************)
StartDay == MkDate(2024, 1, 15)

SampleItem == Item(PyInt(10), PyFloat(100000), PyFloat(1000000))

sample_invoice ==
  [invoice_number |-> PyStr(INV_001),
   invoice_date |-> PyStr(D2024_01_15),
   due_date |-> PyStr(D2024_02_15),
   seller_name |-> PyStr(ABC_Corp),
   seller_tax_id |-> PyStr(TAX123),
   buyer_name |-> PyStr(XYZ_Ltd),
   buyer_tax_id |-> PyStr(TAX456),
   currency |-> PyStr(USD),
   net_total |-> PyFloat(1000000),
   tax_amount |-> PyFloat(180000),
   gross_total |-> PyFloat(1180000),
   source_file |-> Absent,
   line_items |-> LineItems("list", 0, <<SampleItem>>)]

FieldValues ==
  [invoice_number |->
     {Absent, None, PyStr(Empty), PyStr(Blank), PyInt(123)},
   invoice_date |->
     {None, PyStr(Empty), PyStr(D2024_01_16), PyStr(D15_01_2024), PyStr(D2024_02_30),
      PyDate(MkDate(2024, 1, 15)), PyInt(7)},
   due_date |->
     {Absent, PyStr(Empty), PyStr(D2024_01_14), PyStr(D2024_01_15), PyStr(Soon),
      PyInt(5)},
   seller_name |-> {None, PyStr(Empty), PyInt(7)},
   seller_tax_id |->
     {Absent, PyStr(GB_12_3), PyStr(Hash), PyStr(Hyphen), PyInt(12345)},
   buyer_name |-> {Absent, PyStr(Blanks)},
   buyer_tax_id |-> {None, PyStr(Empty), PyStr(A_1), PyInt(1)},
   currency |->
     {None, PyStr(Empty), PyStr(usd), PyStr(Eur), PyStr(XYZ), PyStr(SpaceUSD), PyInt(5)},
   net_total |->
     {None, PyStr(Empty), PyStr(abc), PyStr(T1000_00), PyStr(Minus1000),
      PyDecimal(1000000), PyFloat(-1000000), PyFloat(1000010), PyFloat(999820010)},
   tax_amount |->
     {Absent, PyStr(Blank), PyStr(T180), PyFloat(180020), PyFloat(-180000),
      PyDecimal(-180000), PyInt(0)},
   gross_total |->
     {None, PyStr(T1_180_00), PyStr(Padded1180), PyFloat(1180010), PyFloat(1180015),
      PyFloat(1180020), PyFloat(1179980), PyFloat(-820000), PyFloat(1000000),
      PyDecimal(1000000000), PyDecimal(1000000010)},
   source_file |-> {None, PyStr(a_pdf)}]

LineItemValues ==
  {NoLineItems,
   LineItems("none", 0, <<>>),
   LineItems("list", 0, <<>>),
   LineItems("int", 5, <<>>),
   LineItems("list", 0, <<NotAMapping>>),
   LineItems("list", 0, <<Item(PyInt(10), PyFloat(100000), PyFloat(1000010))>>),
   LineItems("list", 0, <<Item(PyInt(10), PyFloat(100000), PyFloat(1000020))>>),
   LineItems("list", 0, <<Item(PyInt(10), PyFloat(100000), PyStr(abc))>>),
   LineItems("list", 0, <<Item(PyStr(ten), PyFloat(100000), PyFloat(1000000))>>),
   LineItems("list", 0, <<Item(PyInt(0), PyFloat(100000), PyFloat(1000000))>>),
   LineItems("list", 0, <<Item(PyInt(10), PyFloat(100000), PyInt(0))>>),
   LineItems("list", 0, <<Item(PyInt(10), Absent, PyFloat(1000000))>>),
   LineItems("list", 0, <<Item(PyInt(4), PyStr(T125_5), PyFloat(500000)),
                          Item(PyFloat(2500), PyFloat(200000), PyInt(500))>>),
   LineItems("list", 0, <<SampleItem, NotAMapping>>)}

ScalarFields == DOMAIN FieldValues

Edits(r) ==
  UNION {{[r EXCEPT ![f] = v] : v \in FieldValues[f]} : f \in ScalarFields}
    \cup {[r EXCEPT !["line_items"] = li] : li \in LineItemValues}

RECURSIVE Edited(_)
Edited(k) ==
  IF k = 0 THEN {sample_invoice}
  ELSE LET prev == Edited(k - 1)
       IN  prev \cup UNION {Edits(r) : r \in prev}

\* the sample invoice with its optional fields removed
without_optional ==
  [sample_invoice EXCEPT !["due_date"] = Absent, !["seller_tax_id"] = Absent,
                         !["buyer_tax_id"] = Absent, !["line_items"] = NoLineItems]

Records == Edited(MaxEdits) \cup {without_optional}

\* the records of a batch
BatchRecords ==
  {sample_invoice,
   [sample_invoice EXCEPT !["invoice_number"] = None, !["net_total"] = None],
   [sample_invoice EXCEPT !["net_total"] = None, !["due_date"] = Absent],
   [sample_invoice EXCEPT !["gross_total"] = PyFloat(1180020)],
   [sample_invoice EXCEPT !["net_total"] = PyStr(abc)]}

RECURSIVE SeqsUpTo(_, _)
SeqsUpTo(S, n) ==
  IF n = 0 THEN {<<>>}
  ELSE LET shorter == SeqsUpTo(S, n - 1)
       IN  shorter \cup {Append(q, x) : q \in shorter, x \in S}

Batches == SeqsUpTo(BatchRecords, MaxBatch)

\* the records a caller saves to the store
SaveRecords == {sample_invoice, [sample_invoice EXCEPT !["seller_name"] = None]}

(***************************************************************************)
(* InvoiceExtractor (extractor.py).  A PDF file is its name, whether       *)
(* fitz.open succeeds on it, its text and the answer the generative model  *)
(* gives for that text.  The text is represented by what the patterns of   *)
(* _extract_with_regex find in it: the invoice number matched (None when   *)
(* no pattern matches), the dates found as _parse_date returns them (an    *)
(* ISO string, or None for a date that does not parse), the currency       *)
(* named (None when no symbol or code occurs), the company names and the   *)
(* amounts, in thousandths.                                                *)
(***************************************************************************)
empty_invoice(filename) ==
  [invoice_number |-> None, invoice_date |-> None, due_date |-> None,
   seller_name |-> None, seller_tax_id |-> None, buyer_name |-> None,
   buyer_tax_id |-> None, currency |-> PyStr(USD), net_total |-> None,
   tax_amount |-> None, gross_total |-> None, source_file |-> PyStr(filename),
   line_items |-> LineItems("list", 0, <<>>)]

RECURSIVE sorted_reverse(_)
\* parsed_amounts.sort(reverse=True)
sorted_reverse(amounts) ==
  IF Len(amounts) = 0 THEN <<>>
  ELSE LET k == CHOOSE i \in 1..Len(amounts) :
                  \A j \in 1..Len(amounts) : amounts[j] <= amounts[i]
       IN  <<amounts[k]>> \o
           sorted_reverse([i \in 1..(Len(amounts) - 1) |->
                             IF i < k THEN amounts[i] ELSE amounts[i + 1]])

nth_amount(amounts, k) == IF Len(amounts) >= k THEN PyFloat(amounts[k]) ELSE None

extract_with_regex(text) ==
  [empty_invoice(Empty) EXCEPT
     !["invoice_number"] = text.number,
     !["invoice_date"] =
       IF Len(text.dates) >= 1 /\ text.dates[1].t # "none" THEN text.dates[1] ELSE @,
     !["due_date"] =
       IF Len(text.dates) >= 2 /\ text.dates[2].t # "none" THEN text.dates[2] ELSE @,
     !["currency"] = IF text.currency.t # "none" THEN text.currency ELSE @,
     !["seller_name"] = IF Len(text.companies) >= 1 THEN PyStr(text.companies[1]) ELSE @,
     !["buyer_name"] = IF Len(text.companies) >= 2 THEN PyStr(text.companies[2]) ELSE @,
     !["gross_total"] = nth_amount(sorted_reverse(text.amounts), 1),
     !["net_total"] = nth_amount(sorted_reverse(text.amounts), 2),
     !["tax_amount"] = nth_amount(sorted_reverse(text.amounts), 3)]

\* The value _extract_with_ai hands back: a mapping (t = "dict", d the
\* record) or a JSON value that is no mapping (t = "other").  The answer of
\* the model is "error" (generate_content raises), "not_json" (json.loads
\* raises), "scalar" (JSON that is no object and on which the test for
\* 'line_items' or the assignment of it raises TypeError), "mentions" (a
\* JSON string or list that contains 'line_items', returned as it is) or
\* "object" (a JSON object, d its fields).
\* extract_with_ai without the two except clauses
extract_with_ai_unguarded(text, answer) ==
  IF answer.kind \in {"error", "not_json", "scalar"}
  THEN [exc |-> "Exception", t |-> "other", d |-> empty_invoice(Empty)]
  ELSE IF answer.kind = "mentions"
  THEN [exc |-> "", t |-> "other", d |-> empty_invoice(Empty)]
  ELSE [exc |-> "", t |-> "dict",
        d |-> [answer.d EXCEPT !["line_items"] =
                 IF @.t = "absent" THEN LineItems("list", 0, <<>>) ELSE @]]

extract_with_ai(text, answer) ==
  IF answer.kind \in {"error", "not_json", "scalar"}
  THEN [exc |-> "", t |-> "dict", d |-> extract_with_regex(text)]
  ELSE IF answer.kind = "mentions"
  THEN [exc |-> "", t |-> "other", d |-> empty_invoice(Empty)]
  ELSE [exc |-> "", t |-> "dict",
        d |-> [answer.d EXCEPT !["line_items"] =
                 IF @.t = "absent" THEN LineItems("list", 0, <<>>) ELSE @]]

\* lines 80-89 of extract_from_pdf, inside its try block
extracted_record(name, invoice_data) ==
  IF invoice_data.exc # "" \/ invoice_data.t # "dict"
  THEN [status |-> "ok", record |-> empty_invoice(name)]
  ELSE [status |-> "ok",
        record |-> [invoice_data.d EXCEPT !["source_file"] = PyStr(name)]]

extract_from_pdf(pdf, use_ai) ==
  IF ~pdf.opens \/ pdf.text.blank
  THEN [status |-> "ok", record |-> empty_invoice(pdf.name)]
  ELSE IF use_ai THEN extracted_record(pdf.name, extract_with_ai(pdf.text, pdf.answer))
  ELSE extracted_record(pdf.name,
                        [exc |-> "", t |-> "dict", d |-> extract_with_regex(pdf.text)])

(***************************************************************************)
(* POST /validate-json (api/routes.py): the status code of the answer and  *)
(* its payload.  An exception of validate_batch is turned into an          *)
(* HTTPException with status 500.                                          *)
(***************************************************************************)
NoResponse ==
  [status_code |-> 0, summary |-> NoSummary, results |-> <<>>, written |-> {}]

ValidationResultResponse(r) ==
  [invoice_id |-> r.invoice_id, is_valid |-> r.is_valid, errors |-> r.errors,
   warnings |-> r.warnings]

json_response(validated) ==
  IF validated.status = "raise"
  THEN [status_code |-> 500, summary |-> NoSummary, results |-> <<>>,
        written |-> validated.written]
  ELSE [status_code |-> 200, summary |-> validated.summary,
        results |-> [i \in 1..Len(validated.results) |->
                       ValidationResultResponse(validated.results[i])],
        written |-> validated.written]

validate_json(invoices, today_, stored, connects) ==
  json_response(validate_batch(invoices, today_, stored, connects))

NoReport ==
  [status |-> "none", exc |-> "", summary |-> NoSummary, results |-> <<>>,
   written |-> {}]

(***************************************************************************)
(* The validate and process commands (cli.py), from the point where the    *)
(* input is loaded: the exit code of the process, the validation report    *)
(* and the rows of the store afterwards.  typer.Exit(code) ends the        *)
(* process with that code, an exception nobody catches with code 1.        *)
(* InvoiceValidator() and Database(...) open the store when they are       *)
(* constructed.                                                            *)
(***************************************************************************)
NoRun ==
  [exit_code |-> 0, exc |-> "", report |-> NoReport, rows |-> {},
   store |-> EmptyStore, ids |-> <<>>]

exit_status(validated) ==
  IF validated.status = "raise" THEN 1
  ELSE IF validated.summary.invalid_invoices > 0 THEN 1 ELSE 0

\* rows: the triples of invoices.db afterwards, as far as the validator has
\* written them; store: the store of step 3 afterwards; ids: what the calls
\* of db.save_invoice returned, 0 for a call that raised
command_result(validated, stored, db, ids) ==
  [exit_code |-> exit_status(validated), exc |-> validated.exc,
   report |-> validated, rows |-> stored, store |-> db, ids |-> ids]

validate_command(invoices, today_, stored, connects) ==
  IF ~connects
  THEN [exit_code |-> 1, exc |-> "OperationalError", report |-> NoReport,
        rows |-> stored, store |-> EmptyStore, ids |-> <<>>]
  ELSE command_result(validate_batch(invoices, today_, stored, connects), stored,
                      EmptyStore, <<>>)

\* the invoices of the extraction loop
extract_all(pdf_files, use_ai) ==
  [i \in 1..Len(pdf_files) |-> extract_from_pdf(pdf_files[i], use_ai).record]

RECURSIVE save_all(_, _, _, _, _)
\* what one db.save_invoice of the loop leaves to the next
save_next(saving, ids, connects, invoices, k) ==
  save_all(saving.store, Append(ids, saving.id), connects, invoices, k + 1)

\* the loop over db.save_invoice of step 3
save_all(db, ids, connects, invoices, k) ==
  IF k > Len(invoices) THEN [store |-> db, ids |-> ids]
  ELSE save_next(save_invoice_call(db, connects, invoices[k]), ids, connects,
                 invoices, k)

step_3(validated, stored, saving) ==
  command_result(validated, stored, saving.store, saving.ids)

process_result(validated, stored, connects, invoices, save_db, db) ==
  IF validated.status = "raise" \/ ~save_db
  THEN command_result(validated, stored \cup validated.written, db, <<>>)
  ELSE step_3(validated, stored \cup validated.written,
              save_all(db, <<>>, connects, invoices, 1))

\* stored: the triples of the store InvoiceValidator() opens ("invoices.db");
\* db: the store Database(settings.database_path) opens
process_command(pdf_files, use_ai, save_db, today_, stored, connects, db) ==
  IF Len(pdf_files) = 0 THEN [NoRun EXCEPT !.rows = stored, !.store = db]
  ELSE IF ~connects
  THEN [exit_code |-> 1, exc |-> "OperationalError", report |-> NoReport,
        rows |-> stored, store |-> db, ids |-> <<>>]
  ELSE process_result(validate_batch(extract_all(pdf_files, use_ai), today_, stored,
                                     connects),
                      stored, connects, extract_all(pdf_files, use_ai), save_db, db)

(***************************************************************************)
(* The PDF files of the model: a file that cannot be opened, a file        *)
(* without text, a file with the text of the sample invoice and a file     *)
(* in whose text the patterns find nothing.                                *)
(***************************************************************************)
NoText ==
  [blank |-> TRUE, number |-> None, dates |-> <<>>, currency |-> None,
   companies |-> <<>>, amounts |-> <<>>]

SampleText ==
  [blank |-> FALSE, number |-> PyStr(INV_001),
   dates |-> <<PyStr(D2024_01_15), PyStr(D2024_02_15)>>, currency |-> PyStr(USD),
   companies |-> <<ABC_Corp, XYZ_Ltd>>, amounts |-> <<1000000, 180000, 1180000>>]

BareText == [NoText EXCEPT !.blank = FALSE]

OneDateText == [SampleText EXCEPT !.dates = <<None, PyStr(D2024_02_15)>>]

Answer(kind, d) == [kind |-> kind, d |-> d]

Answers ==
  {Answer("error", sample_invoice), Answer("not_json", sample_invoice),
   Answer("scalar", sample_invoice), Answer("mentions", sample_invoice),
   Answer("object", sample_invoice),
   Answer("object", [sample_invoice EXCEPT !["line_items"] = NoLineItems]),
   Answer("object", [sample_invoice EXCEPT !["net_total"] = PyStr(abc)])}

Pdf(opens, text, answer) ==
  [name |-> a_pdf, opens |-> opens, text |-> text, answer |-> answer]

PdfFiles ==
  {Pdf(opens, text, answer) :
     opens \in BOOLEAN, text \in {NoText, SampleText, BareText, OneDateText},
     answer \in Answers}

\* the files of a process run
RunFiles ==
  {Pdf(FALSE, NoText, Answer("error", sample_invoice)),
   Pdf(TRUE, SampleText, Answer("error", sample_invoice)),
   Pdf(TRUE, SampleText, Answer("object", sample_invoice)),
   Pdf(TRUE, SampleText,
       Answer("object", [sample_invoice EXCEPT !["net_total"] = PyStr(abc)]))}

Runs == SeqsUpTo(RunFiles, MaxFiles)

(***************************************************************************)
(* The state.  The validator is synchronous and keeps no state of its own  *)
(* between calls: what varies is its environment (the current date, the    *)
(* stored rows, whether the store can be opened) and what the caller       *)
(* holds: the last call made, its argument and its outcome (the outcome of *)
(* a validate call, the report of a batch, the response of the API, the    *)
(* run of a command, the record extracted from a file).  The environment   *)
(* moves between calls.                                                    *)
(***************************************************************************)
VARIABLES today, ticks, rows, available, call, invoice, outcome, batch, report, response, run, files, extracted, previous, table, sqlite_sequence, saved, lookup, lock, procs, database_path, elsewhere, first

vars == <<today, ticks, rows, available, call, invoice, outcome, batch, report, response, run, files, extracted, previous, table, sqlite_sequence, saved, lookup, lock, procs, database_path, elsewhere, first>>

NoOutcome ==
  [status |-> "none", exc |-> "", invoice_id |-> <<>>, is_valid |-> FALSE,
   errors |-> <<>>, warnings |-> <<>>, lookups |-> <<>>, written |-> {}]

NoExtraction == [status |-> "none", record |-> empty_invoice(Empty)]

\* previous: the last validate call the caller has kept the outcome of
NoPrevious ==
  [kept |-> FALSE, invoice |-> sample_invoice, outcome |-> NoOutcome,
   today |-> StartDay, rows |-> {}, available |-> TRUE]

\* lookup: the last call of check_duplicate, its parameters and its answer
NoLookup ==
  [n |-> None, s |-> None, d |-> None, raised |-> FALSE, dup |-> FALSE,
   written |-> {}]

\* procs[p]: where process p is in its call of save_invoice.  had is the id
\* the triple had in the table when the call began (-1 when it had none),
\* id the lastrowid of the INSERT, ret the value returned.
Procs == 1..MaxProcs

Idle ==
  [pc |-> "idle", arg |-> sample_invoice, had |-> -1, id |-> 0, ret |-> 0,
   raised |-> FALSE, busy |-> FALSE]

\* first: the run of the process command the caller has kept
NoFirst ==
  [kept |-> FALSE, files |-> <<>>, batch |-> <<>>, run |-> NoRun,
   today |-> StartDay, available |-> TRUE]

\* settings.database_path: the default of config.py, or one set in the
\* environment or in .env
Paths == {"invoices.db", "data/invoices.db"}

\* the store Database(settings.database_path) opens
ConfiguredStore ==
  IF database_path = "invoices.db"
  THEN [table |-> table, seq |-> sqlite_sequence]
  ELSE elsewhere

\* the triples of that store
ConfiguredRows ==
  IF database_path = "invoices.db" THEN rows ELSE Range(elsewhere.table)

\* the state after construction, under the configuration of config.py
Init ==
  /\ today = StartDay
  /\ ticks = 0
  /\ rows = {}
  /\ available = TRUE
  /\ call = "none"
  /\ invoice = sample_invoice
  /\ outcome = NoOutcome
  /\ batch = <<>>
  /\ report = NoReport
  /\ response = NoResponse
  /\ run = NoRun
  /\ files = <<>>
  /\ extracted = NoExtraction
  /\ previous = NoPrevious
  /\ table = EmptyTable
  /\ sqlite_sequence = 0
  /\ saved = {}
  /\ lookup = NoLookup
  /\ lock = 0
  /\ procs = [p \in Procs |-> Idle]
  /\ database_path = "invoices.db"
  /\ elsewhere = EmptyStore
  /\ first = NoFirst

\* validator.validate(inv)
Validate(inv) ==
  /\ call = "none"
  /\ call' = "validate"
  /\ invoice' = inv
  /\ outcome' = validate(inv, today, rows, available)
  /\ rows' = rows \cup outcome'.written
  /\ UNCHANGED <<today, ticks, available, batch, report, response, run, files, extracted, previous>>
  /\ UNCHANGED <<table, sqlite_sequence, saved, lookup, lock, procs, database_path, elsewhere, first>>

\* validator.validate_batch(invoices)
ValidateBatch(invoices) ==
  /\ call = "none"
  /\ call' = "validate_batch"
  /\ batch' = invoices
  /\ report' = validate_batch(invoices, today, rows, available)
  /\ rows' = rows \cup report'.written
  /\ UNCHANGED <<today, ticks, available, invoice, outcome, response, run, files, extracted, previous>>
  /\ UNCHANGED <<table, sqlite_sequence, saved, lookup, lock, procs, database_path, elsewhere, first>>

\* POST /validate-json with the body invoices; the validator of the API
\* holds Database(settings.database_path)
ValidateJson(invoices) ==
  /\ call = "none"
  /\ call' = "validate_json"
  /\ batch' = invoices
  /\ response' = validate_json(invoices, today, ConfiguredRows, available)
  /\ rows' = IF database_path = "invoices.db" THEN rows \cup response'.written ELSE rows
  /\ UNCHANGED <<today, ticks, available, invoice, outcome, report, run, files, extracted, previous>>
  /\ UNCHANGED <<table, sqlite_sequence, saved, lookup, lock, procs, database_path, elsewhere, first>>

\* the validate command on a file that holds invoices
ValidateCommand(invoices) ==
  /\ call = "none"
  /\ call' = "validate_command"
  /\ batch' = invoices
  /\ run' = validate_command(invoices, today, rows, available)
  /\ rows' = run'.rows
  /\ UNCHANGED <<today, ticks, available, invoice, outcome, report, response, files, extracted, previous>>
  /\ UNCHANGED <<table, sqlite_sequence, saved, lookup, lock, procs, database_path, elsewhere, first>>

\* the triples of the records of a run that db.save_invoice returned an id of
saved_by(invoices, ids) ==
  {triple_of(invoices[k]) : k \in {i \in 1..Len(ids) : ids[i] > 0}}

\* the process command on a directory that holds pdf_files
ProcessCommand(pdf_files, use_ai, save_db) ==
  /\ call = "none"
  /\ call' = "process_command"
  /\ files' = pdf_files
  /\ batch' = extract_all(pdf_files, use_ai)
  /\ run' = process_command(pdf_files, use_ai, save_db, today, rows, available,
                            ConfiguredStore)
  /\ IF database_path = "invoices.db"
     THEN /\ table' = run'.store.table
          /\ sqlite_sequence' = run'.store.seq
          /\ rows' = run'.rows \cup Range(run'.store.table)
          /\ saved' = saved \cup saved_by(batch', run'.ids)
          /\ UNCHANGED elsewhere
     ELSE /\ elsewhere' = run'.store
          /\ rows' = run'.rows
          /\ UNCHANGED <<table, sqlite_sequence, saved>>
  /\ UNCHANGED <<today, ticks, available, invoice, outcome, report, response, extracted, previous>>
  /\ UNCHANGED <<lookup, lock, procs, database_path, first>>

\* extractor.extract_from_pdf(pdf)
ExtractFromPdf(pdf, use_ai) ==
  /\ call = "none"
  /\ call' = IF use_ai THEN "extract_with_ai" ELSE "extract_with_regex"
  /\ files' = <<pdf>>
  /\ extracted' = extract_from_pdf(pdf, use_ai)
  /\ UNCHANGED <<today, ticks, rows, available, invoice, outcome, batch, report, response, run, previous>>
  /\ UNCHANGED <<table, sqlite_sequence, saved, lookup, lock, procs, database_path, elsewhere, first>>

\* the caller is done with the outcome
Return ==
  /\ call # "none"
  /\ call' = "none"
  /\ invoice' = sample_invoice
  /\ outcome' = NoOutcome
  /\ batch' = <<>>
  /\ report' = NoReport
  /\ response' = NoResponse
  /\ run' = NoRun
  /\ files' = <<>>
  /\ extracted' = NoExtraction
  /\ lookup' = NoLookup
  /\ UNCHANGED <<today, ticks, rows, available, previous>>
  /\ UNCHANGED <<table, sqlite_sequence, saved, lock, procs, database_path, elsewhere, first>>

\* what a call of db.save_invoice that is through leaves in invoices.db
Stored(saving, invoice_data) ==
  /\ table' = saving.store.table
  /\ sqlite_sequence' = saving.store.seq
  /\ rows' = save_invoice(rows, available, invoice_data)
  /\ saved' = IF saving.id > 0 THEN saved \cup {triple_of(invoice_data)} ELSE saved

\* db.save_invoice(inv) on invoices.db, with no other writer at work
SaveInvoice(inv) ==
  /\ call = "none"
  /\ lock = 0
  /\ Stored(save_invoice_call([table |-> table, seq |-> sqlite_sequence], available, inv), inv)
  /\ UNCHANGED <<today, ticks, available, call, invoice, outcome, batch, report, response, run, files, extracted, previous>>
  /\ UNCHANGED <<lookup, lock, procs, database_path, elsewhere, first>>

\* the store becomes unreachable, or reachable again
StoreFault ==
  /\ call = "none"
  /\ available' = ~available
  /\ UNCHANGED <<today, ticks, rows, call, invoice, outcome, batch, report, response, run, files, extracted, previous>>
  /\ UNCHANGED <<table, sqlite_sequence, saved, lookup, lock, procs, database_path, elsewhere, first>>

\* midnight passes
Tick ==
  /\ call = "none"
  /\ ticks < MaxTicks
  /\ ticks' = ticks + 1
  /\ today' = NextDay(today)
  /\ UNCHANGED <<rows, available, call, invoice, outcome, batch, report, response, run, files, extracted, previous>>
  /\ UNCHANGED <<table, sqlite_sequence, saved, lookup, lock, procs, database_path, elsewhere, first>>

Next ==
  \/ \E inv \in Records : Validate(inv)
  \/ \E invoices \in Batches : ValidateBatch(invoices)
  \/ \E invoices \in Batches : ValidateJson(invoices)
  \/ \E invoices \in Batches : ValidateCommand(invoices)
  \/ \E pdf_files \in Runs, use_ai \in BOOLEAN, save_db \in BOOLEAN :
       ProcessCommand(pdf_files, use_ai, save_db)
  \/ \E pdf \in PdfFiles, use_ai \in BOOLEAN : ExtractFromPdf(pdf, use_ai)
  \/ Return
  \/ \E inv \in SaveRecords : SaveInvoice(inv)
  \/ StoreFault
  \/ Tick

Spec == Init /\ [][Next]_vars

(***************************************************************************)
(* Two calls of validate on one record.  The caller keeps the outcome of   *)
(* a call, the environment moves or stays, and the caller validates        *)
(* again.                                                                  *)
(***************************************************************************)
AgainRecords ==
  {sample_invoice,
   [sample_invoice EXCEPT !["invoice_date"] = PyStr(D2024_01_16)],
   [sample_invoice EXCEPT !["due_date"] = Absent, !["gross_total"] = PyFloat(1180020)],
   [sample_invoice EXCEPT !["net_total"] = PyStr(abc)]}

\* the caller keeps the outcome of the validate call
Keep ==
  /\ call = "validate"
  /\ previous' = [kept |-> TRUE, invoice |-> invoice, outcome |-> outcome,
                  today |-> today, rows |-> rows, available |-> available]
  /\ call' = "none"
  /\ invoice' = sample_invoice
  /\ outcome' = NoOutcome
  /\ UNCHANGED <<today, ticks, rows, available, batch, report, response, run, files, extracted>>
  /\ UNCHANGED <<table, sqlite_sequence, saved, lookup, lock, procs, database_path, elsewhere, first>>

NextAgain ==
  \/ \E inv \in AgainRecords : Validate(inv)
  \/ Keep
  \/ \E inv \in SaveRecords : SaveInvoice(inv)
  \/ StoreFault
  \/ Tick

SpecAgain == Init /\ [][NextAgain]_vars

(***************************************************************************)
(* save_invoice calls of several processes on invoices.db, statement by    *)
(* statement.  A connection that writes holds the write lock of the file   *)
(* from its INSERT to its commit or close; an INSERT that meets the lock   *)
(* of another connection waits for it, and ends in OperationalError        *)
(* ("database is locked") when the wait is over before the lock is free.   *)
(***************************************************************************)
\* the records the processes save
StoreRecords ==
  {sample_invoice,
   [sample_invoice EXCEPT !["buyer_name"] = PyStr(XYZ_Ltd), !["net_total"] = None],
   [sample_invoice EXCEPT !["invoice_number"] = PyInt(123)],
   [sample_invoice EXCEPT !["seller_name"] = None],
   [sample_invoice EXCEPT !["tax_amount"] = PyDecimal(180000)]}

\* conn = self._get_connection(), outside the try block
SaveCall(p, inv) ==
  /\ procs[p].pc = "idle"
  /\ procs' = [procs EXCEPT ![p] =
                 [Idle EXCEPT !.pc = IF available THEN "connected" ELSE "done",
                              !.arg = inv,
                              !.had = existing_id(table, inv),
                              !.raised = ~available]]
  /\ UNCHANGED <<today, ticks, rows, available, call, invoice, outcome, batch, report, response, run, files, extracted, previous>>
  /\ UNCHANGED <<table, sqlite_sequence, saved, lookup, lock, database_path, elsewhere, first>>

\* cursor.execute of the INSERT, the write lock being free
SaveInsert(p) ==
  /\ procs[p].pc = "connected"
  /\ insert_binds(procs[p].arg)
  /\ lock = 0
  /\ lock' = p
  /\ procs' = [procs EXCEPT ![p] =
                 IF ~not_null(@.arg) \/ unique_conflict(table, @.arg)
                 THEN [@ EXCEPT !.pc = "IntegrityError"]
                 ELSE [@ EXCEPT !.pc = "inserted", !.id = sqlite_sequence + 1]]
  /\ UNCHANGED <<today, ticks, rows, available, call, invoice, outcome, batch, report, response, run, files, extracted, previous>>
  /\ UNCHANGED <<table, sqlite_sequence, saved, lookup, database_path, elsewhere, first>>

\* the parameters of the INSERT do not serialize or bind: except Exception
SaveError(p) ==
  /\ procs[p].pc = "connected"
  /\ ~insert_binds(procs[p].arg)
  /\ procs' = [procs EXCEPT ![p] = [@ EXCEPT !.pc = "done", !.ret = -1]]
  /\ UNCHANGED <<today, ticks, rows, available, call, invoice, outcome, batch, report, response, run, files, extracted, previous>>
  /\ UNCHANGED <<table, sqlite_sequence, saved, lookup, lock, database_path, elsewhere, first>>

\* cursor.execute of the INSERT gives up on the lock of another connection:
\* except Exception
SaveBusy(p) ==
  /\ procs[p].pc = "connected"
  /\ insert_binds(procs[p].arg)
  /\ lock \notin {0, p}
  /\ procs' = [procs EXCEPT ![p] = [@ EXCEPT !.pc = "done", !.ret = -1, !.busy = TRUE]]
  /\ UNCHANGED <<today, ticks, rows, available, call, invoice, outcome, batch, report, response, run, files, extracted, previous>>
  /\ UNCHANGED <<table, sqlite_sequence, saved, lookup, lock, database_path, elsewhere, first>>

\* invoice_id = cursor.lastrowid; conn.commit(); return invoice_id
SaveCommit(p) ==
  /\ procs[p].pc = "inserted"
  /\ table' = inserted(table, procs[p].id, triple_of(procs[p].arg))
  /\ sqlite_sequence' = procs[p].id
  /\ rows' = rows \cup {triple_of(procs[p].arg)}
  /\ saved' = saved \cup {triple_of(procs[p].arg)}
  /\ lock' = 0
  /\ procs' = [procs EXCEPT ![p] = [@ EXCEPT !.pc = "done", !.ret = procs[p].id]]
  /\ UNCHANGED <<today, ticks, available, call, invoice, outcome, batch, report, response, run, files, extracted, previous>>
  /\ UNCHANGED <<lookup, database_path, elsewhere, first>>

\* except sqlite3.IntegrityError: the SELECT, the return and the close
SaveSelect(p) ==
  /\ procs[p].pc = "IntegrityError"
  /\ lock' = 0
  /\ procs' = [procs EXCEPT ![p] =
                 [@ EXCEPT !.pc = "done", !.ret = existing_id(table, procs[p].arg)]]
  /\ saved' = IF existing_id(table, procs[p].arg) > 0
              THEN saved \cup {triple_of(procs[p].arg)} ELSE saved
  /\ UNCHANGED <<today, ticks, rows, available, call, invoice, outcome, batch, report, response, run, files, extracted, previous>>
  /\ UNCHANGED <<table, sqlite_sequence, lookup, database_path, elsewhere, first>>

\* the caller has the id, or the exception
SaveReturn(p) ==
  /\ procs[p].pc = "done"
  /\ procs' = [procs EXCEPT ![p] = Idle]
  /\ UNCHANGED <<today, ticks, rows, available, call, invoice, outcome, batch, report, response, run, files, extracted, previous>>
  /\ UNCHANGED <<table, sqlite_sequence, saved, lookup, lock, database_path, elsewhere, first>>

NextSave ==
  \/ \E p \in Procs, inv \in StoreRecords : SaveCall(p, inv)
  \/ \E p \in Procs : SaveInsert(p)
  \/ \E p \in Procs : SaveError(p)
  \/ \E p \in Procs : SaveBusy(p)
  \/ \E p \in Procs : SaveCommit(p)
  \/ \E p \in Procs : SaveSelect(p)
  \/ \E p \in Procs : SaveReturn(p)
  \/ StoreFault

SpecSave == Init /\ [][NextSave]_vars

(***************************************************************************)
(* One caller at the store: save_invoice, check_duplicate and              *)
(* clear_all_data on invoices.db, one call after the other.                *)
(***************************************************************************)
N123 == <<"1", "2", "3">>

\* the invoice numbers check_duplicate is asked about
LookupNumbers == {PyStr(INV_001), PyInt(123), PyStr(N123), PyDecimal(123000)}

\* db.check_duplicate(n, s, d)
CheckDuplicate(n, s, d) ==
  /\ call = "none"
  /\ call' = "check_duplicate"
  /\ lookup' = [n |-> n, s |-> s, d |-> d,
                raised |-> check_duplicate(rows, available, n, s, d).raised,
                dup |-> check_duplicate(rows, available, n, s, d).dup,
                written |-> check_duplicate(rows, available, n, s, d).written]
  /\ rows' = rows \cup lookup'.written
  /\ UNCHANGED <<today, ticks, available, invoice, outcome, batch, report, response, run, files, extracted, previous>>
  /\ UNCHANGED <<table, sqlite_sequence, saved, lock, procs, database_path, elsewhere, first>>

\* db.clear_all_data(): the connection is opened outside the try block; the
\* DELETE leaves the ids given out so far to sqlite_sequence
ClearAllData ==
  /\ call = "none"
  /\ sqlite_sequence < MaxIds
  /\ call' = "clear_all_data"
  /\ lookup' = [NoLookup EXCEPT !.raised = ~available]
  /\ table' = IF available THEN EmptyTable ELSE table
  /\ rows' = IF available THEN {} ELSE rows
  /\ saved' = IF available THEN {} ELSE saved
  /\ UNCHANGED <<today, ticks, available, invoice, outcome, batch, report, response, run, files, extracted, previous>>
  /\ UNCHANGED <<sqlite_sequence, lock, procs, database_path, elsewhere, first>>

NextStore ==
  \/ \E inv \in StoreRecords : SaveInvoice(inv)
  \/ \E n \in LookupNumbers : CheckDuplicate(n, PyStr(ABC_Corp), PyStr(D2024_01_15))
  \/ ClearAllData
  \/ Return
  \/ StoreFault

SpecStore == Init /\ [][NextStore]_vars

(***************************************************************************)
(* Runs of the process command, under the default database_path or         *)
(* another one.  The caller keeps the outcome of a run and runs the        *)
(* command again; the environment moves or stays in between.               *)
(***************************************************************************)
InitConfigured ==
  /\ today = StartDay
  /\ ticks = 0
  /\ rows = {}
  /\ available = TRUE
  /\ call = "none"
  /\ invoice = sample_invoice
  /\ outcome = NoOutcome
  /\ batch = <<>>
  /\ report = NoReport
  /\ response = NoResponse
  /\ run = NoRun
  /\ files = <<>>
  /\ extracted = NoExtraction
  /\ previous = NoPrevious
  /\ table = EmptyTable
  /\ sqlite_sequence = 0
  /\ saved = {}
  /\ lookup = NoLookup
  /\ lock = 0
  /\ procs = [p \in Procs |-> Idle]
  /\ database_path \in Paths
  /\ elsewhere = EmptyStore
  /\ first = NoFirst

\* the caller keeps the outcome of the run
KeepRun ==
  /\ call = "process_command"
  /\ first' = [kept |-> TRUE, files |-> files, batch |-> batch, run |-> run,
               today |-> today, available |-> available]
  /\ call' = "none"
  /\ files' = <<>>
  /\ batch' = <<>>
  /\ run' = NoRun
  /\ UNCHANGED <<today, ticks, rows, available, invoice, outcome, report, response, extracted, previous>>
  /\ UNCHANGED <<table, sqlite_sequence, saved, lookup, lock, procs, database_path, elsewhere>>

\* the directories the command is run on again
RepeatedRuns ==
  SeqsUpTo({Pdf(FALSE, NoText, Answer("error", sample_invoice)),
            Pdf(TRUE, SampleText, Answer("object", sample_invoice)),
            Pdf(TRUE, SampleText,
                Answer("object", [sample_invoice EXCEPT !["net_total"] = PyStr(abc)]))},
           MaxFiles)

NextRuns ==
  \/ \E pdf_files \in RepeatedRuns, use_ai \in BOOLEAN, save_db \in BOOLEAN :
       ProcessCommand(pdf_files, use_ai, save_db)
  \/ KeepRun
  \/ StoreFault
  \/ Tick

SpecRuns == InitConfigured /\ [][NextRuns]_vars

(***************************************************************************)
(* Vocabulary of the properties.  What a property says of a record is      *)
(* stated on the record itself, not through the checks of the validator.   *)
(***************************************************************************)
Returned == call = "validate" /\ outcome.status = "ok"
BatchReturned == call = "validate_batch" /\ report.status = "ok"

Elems(seq) == {seq[i] : i \in 1..Len(seq)}

\* absent or null
missing(v) == v.t \in {"absent", "none"}
\* an empty or whitespace-only string
blank(v) == v.t = "str" /\ \A i \in 1..Len(v.s) : v.s[i] = " "
\* numeric and < 0
negative(v) == isNumber(v) /\ v.n < 0

\* the amount a value denotes, in thousandths, where it denotes one
Parsed(v) ==
  CASE isNumber(v) -> [ok |-> TRUE, n |-> Thousandths(v)]
    [] v.t = "str" -> DecimalOfText(v.s)
    [] OTHER -> [ok |-> FALSE, n |-> 0]

\* the calendar date a value denotes, where it denotes one
DateParsed(v) ==
  CASE v.t = "date" -> [ok |-> TRUE, n |-> v.n]
    [] v.t = "str" -> fromisoformat(v.s)
    [] OTHER -> [ok |-> FALSE, n |-> 0]

AmountsParseable(inv) ==
  \A f \in {"net_total", "tax_amount", "gross_total"} : Parsed(inv[f]).ok

\* |net_total + tax_amount - gross_total|, in thousandths
TotalsGap(inv) ==
  Abs(Parsed(inv["net_total"]).n + Parsed(inv["tax_amount"]).n
        - Parsed(inv["gross_total"]).n)

HasError(m, f) == \E e \in Elems(outcome.errors) : e.m = m /\ e.f = f

\* the eight required fields present and valid, the due date absent or not
\* before the invoice date, and the totals agreeing within 0.01
WellFormed(inv, day) ==
  /\ \A k \in 1..Len(required_fields) :
       ~missing(inv[required_fields[k]]) /\ ~blank(inv[required_fields[k]])
         /\ ~negative(inv[required_fields[k]])
  /\ AmountsParseable(inv)
  /\ \A f \in {"net_total", "tax_amount", "gross_total"} : Parsed(inv[f]).n >= 0
  /\ DateParsed(inv["invoice_date"]).ok
  /\ DateParsed(inv["invoice_date"]).n <= day
  /\ \/ missing(inv["due_date"])
     \/ /\ DateParsed(inv["due_date"]).ok
        /\ DateParsed(inv["due_date"]).n >= DateParsed(inv["invoice_date"]).n
  /\ inv["currency"].t = "str"
  /\ upper(inv["currency"].s) \in allowed_currencies
  /\ TotalsGap(inv) <= 10

\* the triple the duplicate check is to look up for the validated record
LookupTriple ==
  <<invoice["invoice_number"], invoice["seller_name"],
    IF invoice["invoice_date"].t = "str" THEN invoice["invoice_date"]
    ELSE PyStr(str(invoice["invoice_date"]))>>

DuplicateWarning ==
  Msg("Duplicate invoice detected", "", LookupTriple)

\* the oracle was consulted, could be reached and holds the triple
Hit ==
  /\ outcome.lookups # <<>>
  /\ available
  /\ <<str(LookupTriple[1]), str(LookupTriple[2]), str(LookupTriple[3])>> \in rows

\* the places of the error messages in the results of a batch
ErrorPositions ==
  UNION {{<<i, j>> : j \in 1..Len(report.results[i].errors)} :
           i \in 1..Len(report.results)}
ErrorAt(p) == report.results[p[1]].errors[p[2]]

RECURSIVE SumOver(_, _)
SumOver(f, S) ==
  IF S = {} THEN 0
  ELSE LET x == CHOOSE y \in S : TRUE
       IN  f[x] + SumOver(f, S \ {x})

(***************************************************************************)
(* C1: for every record, the result validate returns has is_valid = true   *)
(* exactly when its errors list is empty; the warnings, however many, do   *)
(* not change is_valid.  The same holds of every result of a batch.        *)
(***************************************************************************)
C1_ValidIffNoErrors ==
  /\ Returned => (outcome.is_valid <=> outcome.errors = <<>>)
  /\ BatchReturned =>
       \A i \in 1..Len(report.results) :
         report.results[i].is_valid <=> report.results[i].errors = <<>>

\* a valid result that carries warnings, and none of them gated it
C1_Witness ==
  Returned /\ outcome.is_valid /\ Len(outcome.warnings) >= 2

(***************************************************************************)
(* C2: validate never raises on malformed input: whatever field is absent, *)
(* null, empty or of an unexpected type, the call returns a                *)
(* ValidationResult.                                                       *)
(***************************************************************************)
C2_NeverRaises == call = "validate" => outcome.status = "ok"

(***************************************************************************)
(* C3: for every record whose eight required fields are present and valid  *)
(* (non-empty, non-negative amounts, parseable non-future invoice date,    *)
(* due date absent or not before the invoice date, allowed currency) and   *)
(* whose net_total + tax_amount equals gross_total within 0.01, the result *)
(* validate returns has is_valid = true and errors = [], whatever warnings *)
(* it carries and whatever the duplicate oracle answers.                   *)
(***************************************************************************)
C3_WellFormedIsValid ==
  Returned /\ WellFormed(invoice, today) =>
    outcome.is_valid /\ outcome.errors = <<>>

\* a well-formed record dated today, found in the store, valid with warnings
C3_Witness ==
  /\ Returned
  /\ WellFormed(invoice, today)
  /\ DateParsed(invoice["invoice_date"]).n = today
  /\ DuplicateWarning \in Elems(outcome.warnings)
  /\ outcome.is_valid

(***************************************************************************)
(* C4: for each of the eight required fields X: if X is absent or null the *)
(* errors contain "Missing required field: X"; if X is an empty or         *)
(* whitespace-only string the errors contain "Empty required field: X"; if *)
(* X is numeric and < 0 the errors contain "Negative value in required     *)
(* field: X"; in each of these cases is_valid = false.                     *)
(***************************************************************************)
C4_RequiredFieldErrors ==
  call = "validate" =>
    \A k \in 1..Len(required_fields) :
      /\ missing(invoice[required_fields[k]]) =>
           /\ Returned
           /\ HasError("Missing required field", required_fields[k])
           /\ ~outcome.is_valid
      /\ blank(invoice[required_fields[k]]) =>
           /\ Returned
           /\ HasError("Empty required field", required_fields[k])
           /\ ~outcome.is_valid
      /\ negative(invoice[required_fields[k]]) =>
           /\ Returned
           /\ HasError("Negative value in required field", required_fields[k])
           /\ ~outcome.is_valid

\* C4 as far as the code keeps it: the three errors are in every result
\* that validate returns
RequiredFieldErrorsWhenReturned ==
  Returned =>
    \A k \in 1..Len(required_fields) :
      /\ missing(invoice[required_fields[k]]) =>
           HasError("Missing required field", required_fields[k])
             /\ ~outcome.is_valid
      /\ blank(invoice[required_fields[k]]) =>
           HasError("Empty required field", required_fields[k])
             /\ ~outcome.is_valid
      /\ negative(invoice[required_fields[k]]) =>
           HasError("Negative value in required field", required_fields[k])
             /\ ~outcome.is_valid

(***************************************************************************)
(* C5: when net_total, tax_amount and gross_total are all parseable, the   *)
(* result carries a "Total calculation mismatch" error exactly when        *)
(* |net_total + tax_amount - gross_total| > 0.01 (10 thousandths): a       *)
(* difference of exactly 0.01 gives none, a difference of 0.02 gives one.  *)
(***************************************************************************)
C5_TotalsTolerance ==
  Returned /\ AmountsParseable(invoice) =>
    (HasError("Total calculation mismatch", "") <=> TotalsGap(invoice) > 10)

\* a difference of exactly 0.01, and no mismatch error
C5_Witness ==
  /\ Returned
  /\ AmountsParseable(invoice)
  /\ TotalsGap(invoice) = 10
  /\ ~HasError("Total calculation mismatch", "")

(***************************************************************************)
(* C6: for any batch, the empty one included, the summary validate_batch   *)
(* returns has total_invoices = len(results), valid_invoices = the number  *)
(* of results with is_valid = true, and valid_invoices + invalid_invoices  *)
(* = total_invoices.                                                       *)
(***************************************************************************)
C6_BatchSummary ==
  /\ BatchReturned =>
       /\ report.summary.total_invoices = Len(report.results)
       /\ report.summary.valid_invoices =
            Cardinality({i \in 1..Len(report.results) : report.results[i].is_valid})
       /\ report.summary.valid_invoices + report.summary.invalid_invoices =
            report.summary.total_invoices
  /\ call = "validate_batch" /\ batch = <<>> =>
       /\ BatchReturned
       /\ report.summary.total_invoices = 0

\* a batch of three with one valid record, whose two invalid records share
\* their only error message
C6_Witness ==
  /\ BatchReturned
  /\ report.summary.total_invoices = 3
  /\ report.summary.valid_invoices = 1
  /\ Cardinality(DOMAIN report.summary.error_counts) = 1

(***************************************************************************)
(* C7: validate_batch keeps the input order and validates each record on   *)
(* its own: results is as long as the input and results[i] is the result   *)
(* of validate(records[i]) run alone against the same oracle state, so no  *)
(* result depends on the other records of the batch or on their order.     *)
(***************************************************************************)
C7_BatchOrderAndIndependence ==
  BatchReturned =>
    /\ Len(report.results) = Len(batch)
    /\ \A i \in 1..Len(batch) :
         report.results[i] = model_dump(validate(batch[i], today, rows, available))

\* a batch whose first and last results differ
C7_Witness ==
  /\ BatchReturned
  /\ Len(batch) = 3
  /\ report.results[1] # report.results[3]
  /\ report.results[1].is_valid
  /\ ~report.results[3].is_valid

(***************************************************************************)
(* C8: for any batch, summary.error_counts maps each exact error string to *)
(* the number of its occurrences in the errors lists of all results: its   *)
(* keys are the error strings that occur at least once, no warning is      *)
(* counted, and its values sum to the number of errors of all results.     *)
(***************************************************************************)
C8_ErrorCounts ==
  BatchReturned =>
    /\ DOMAIN report.summary.error_counts = {ErrorAt(p) : p \in ErrorPositions}
    /\ \A s \in DOMAIN report.summary.error_counts :
         report.summary.error_counts[s] =
           Cardinality({p \in ErrorPositions : ErrorAt(p) = s})
    /\ \A i \in 1..Len(report.results) :
         \A w \in Elems(report.results[i].warnings) :
           w \notin DOMAIN report.summary.error_counts
    /\ SumOver(report.summary.error_counts, DOMAIN report.summary.error_counts) =
         Cardinality(ErrorPositions)

\* one message counted twice, beside another built on the same template with
\* another field name, in a batch that also carries warnings
C8_Witness ==
  /\ BatchReturned
  /\ \E s, u \in DOMAIN report.summary.error_counts :
       /\ report.summary.error_counts[s] = 2
       /\ u # s
       /\ u.m = s.m
  /\ \E i \in 1..Len(report.results) : report.results[i].warnings # <<>>

(***************************************************************************)
(* C9: a failing duplicate lookup never fails validation and adds no       *)
(* finding: when check_duplicate raises, validate returns the errors,      *)
(* warnings and is_valid it returns when the oracle answers 'no            *)
(* duplicate' (the oracle of an empty store).                              *)
(***************************************************************************)
C9_OracleFailureIsNoDuplicate ==
  call = "validate" /\ outcome.lookups # <<>> /\ ~available =>
    /\ outcome.status = "ok"
    /\ outcome = validate(invoice, today, {}, TRUE)

\* the lookup fails for a record whose triple the store holds
C9_Witness ==
  /\ call = "validate"
  /\ outcome.lookups # <<>>
  /\ ~available
  /\ <<str(LookupTriple[1]), str(LookupTriple[2]), str(LookupTriple[3])>> \in rows
  /\ outcome.is_valid

(***************************************************************************)
(* C10: the duplicate check consults the oracle only when invoice_number,  *)
(* seller_name and invoice_date are all present, and then once, with       *)
(* exactly that triple; on a hit it appends the warning "Duplicate invoice *)
(* detected: N from S on D" and nothing to errors, so that a duplicate     *)
(* alone never makes is_valid false.                                       *)
(***************************************************************************)
C10_DuplicateCheck ==
  call = "validate" =>
    /\ outcome.lookups # <<>> =>
         /\ \A f \in {"invoice_number", "seller_name", "invoice_date"} :
              ~missing(invoice[f])
         /\ outcome.lookups = <<LookupTriple>>
    /\ Returned /\ Hit => DuplicateWarning \in Elems(outcome.warnings)
    /\ Returned =>
         /\ \A e \in Elems(outcome.errors) : e.m # "Duplicate invoice detected"
         /\ outcome.errors = validate(invoice, today, {}, TRUE).errors
         /\ outcome.is_valid = validate(invoice, today, {}, TRUE).is_valid

\* a hit on a record that is valid all the same
C10_Witness ==
  /\ Returned
  /\ Hit
  /\ DuplicateWarning \in Elems(outcome.warnings)
  /\ outcome.errors = <<>>
  /\ outcome.is_valid

(***************************************************************************)
(* C11: one bad record never aborts a batch: every call of validate_batch   *)
(* returns, with one result for every record of the batch and a summary     *)
(* that counts every record.                                                *)
(***************************************************************************)
C11_BatchNeverAborts ==
  call = "validate_batch" =>
    /\ report.status = "ok"
    /\ Len(report.results) = Len(batch)
    /\ report.summary.total_invoices = Len(batch)

(***************************************************************************)
(* C12: POST /validate-json answers every list of invoice mappings, the    *)
(* invalid and the malformed ones included, with status 200 and a payload  *)
(* that holds the summary and one result for every invoice of the list.    *)
(***************************************************************************)
C12_ValidateJsonAnswers200 ==
  call = "validate_json" =>
    /\ response.status_code = 200
    /\ Len(response.results) = Len(batch)
    /\ response.summary.total_invoices = Len(batch)

(***************************************************************************)
(* C13: once the input is loaded, the validate and the process command     *)
(* exit with code 0 when every invoice of the run is valid and with a      *)
(* non-zero code exactly when at least one invoice of the run is invalid.  *)
(* An invoice counts as valid when validate returns is_valid = true for    *)
(* it.                                                                     *)
(***************************************************************************)
FoundValid(inv) ==
  /\ validate(inv, today, rows, available).status = "ok"
  /\ validate(inv, today, rows, available).is_valid

C13_ExitStatusGatesOnValidity ==
  call \in {"validate_command", "process_command"} =>
    (run.exit_code = 0 <=> \A i \in 1..Len(batch) : FoundValid(batch[i]))

(***************************************************************************)
(* C14: validating the same record twice, with the same stored invoices at *)
(* both calls, yields the same invoice_id, is_valid, errors and warnings.  *)
(* As the claim states it, nothing else is required of the two calls.      *)
(***************************************************************************)
SameOutcome(a, b) ==
  /\ a.status = b.status
  /\ a.exc = b.exc
  /\ a.invoice_id = b.invoice_id
  /\ a.is_valid = b.is_valid
  /\ a.errors = b.errors
  /\ a.warnings = b.warnings

ValidatedAgain ==
  /\ call = "validate"
  /\ previous.kept
  /\ previous.invoice = invoice
  /\ previous.rows = rows

C14_SameRecordSameResult == ValidatedAgain => SameOutcome(outcome, previous.outcome)

(***************************************************************************)
(* C14, amended: validating the same record twice yields the same          *)
(* invoice_id, is_valid, errors and warnings when the two calls find the   *)
(* same stored invoices, the same current date and the store equally       *)
(* reachable.                                                              *)
(***************************************************************************)
C14_SameRecordSameDaySameResult ==
  (ValidatedAgain /\ previous.today = today /\ previous.available = available)
    => SameOutcome(outcome, previous.outcome)

\* the second call has looked the triple up and reports what the first reported
C14_Witness ==
  /\ ValidatedAgain
  /\ previous.today = today
  /\ previous.available = available
  /\ outcome.status = "ok"
  /\ Len(outcome.lookups) > 0
  /\ Len(outcome.errors) > 0
  /\ Len(outcome.warnings) > 0
  /\ SameOutcome(outcome, previous.outcome)

(***************************************************************************)
(* The place of a finding in the order of the checks: the required fields  *)
(* in their order, the invoice date, the due date, the currency, the       *)
(* totals, the negative amounts in the order of the amount fields; for the *)
(* warnings the tax IDs (seller, buyer), the sum of the line items, the    *)
(* line items by index, the anomalies and the duplicate.                   *)
(***************************************************************************)
IndexIn(seq, x) == CHOOSE i \in 1..Len(seq) : seq[i] = x

ErrorRank(e) ==
  CASE e.m \in {"Missing required field", "Empty required field",
               "Negative value in required field"} -> IndexIn(required_fields, e.f)
    [] e.m \in {"Invalid invoice_date format",
               "Invoice date cannot be in the future"} -> 9
    [] e.m \in {"Invalid due_date format",
               "Due date cannot be before invoice date"} -> 10
    [] e.m = "Invalid currency" -> 11
    [] e.m = "Total calculation mismatch" -> 12
    [] e.m = "Negative amount not allowed" -> 12 + IndexIn(amount_fields, e.f)
    [] OTHER -> 0

WarningRank(w) ==
  CASE w.m = "tax ID format may be invalid" -> IF w.f = "Seller" THEN 1 ELSE 2
    [] w.m = "Line items sum does not match net total" -> 3
    [] w.m = "Line item: quantity * unit_price != line_total" -> 3 + w.v[1].n
    [] w.m = "Unusually high gross total" -> 101
    [] w.m = "Due date is missing" -> 102
    [] w.m = "Seller tax ID is missing" -> 103
    [] w.m = "Buyer tax ID is missing" -> 104
    [] w.m = "No line items found in invoice" -> 105
    [] w.m = "Duplicate invoice detected" -> 106
    [] OTHER -> 0

(***************************************************************************)
(* C15: the findings of a result are listed in the order in which the      *)
(* checks run: in errors the required-field errors in field order, then    *)
(* the format errors (invoice date, due date, currency), then the totals   *)
(* mismatch, then the negative amounts; in warnings the tax-ID formats,    *)
(* then the line-items sum, then the line items, then the anomalies (high  *)
(* gross total, due date, seller tax ID, buyer tax ID, no line items), and *)
(* the duplicate warning last.                                             *)
(***************************************************************************)
C15_FindingsInCheckOrder ==
  Returned =>
    /\ \A i \in 1..Len(outcome.errors) : ErrorRank(outcome.errors[i]) > 0
    /\ \A i \in 1..Len(outcome.warnings) : WarningRank(outcome.warnings[i]) > 0
    /\ \A i, j \in 1..Len(outcome.errors) :
         i < j => ErrorRank(outcome.errors[i]) < ErrorRank(outcome.errors[j])
    /\ \A i, j \in 1..Len(outcome.warnings) :
         i < j => WarningRank(outcome.warnings[i]) < WarningRank(outcome.warnings[j])

\* a required-field error, a format error and a business error in one result,
\* and a duplicate warning after another warning
C15_Witness ==
  /\ Returned
  /\ \E i, j, k \in 1..Len(outcome.errors) :
       /\ ErrorRank(outcome.errors[i]) <= 8
       /\ ErrorRank(outcome.errors[j]) \in 9..11
       /\ ErrorRank(outcome.errors[k]) >= 12
  /\ Len(outcome.warnings) >= 2
  /\ outcome.warnings[Len(outcome.warnings)].m = "Duplicate invoice detected"

(***************************************************************************)
(* C16: an amount that cannot be parsed as a decimal is converted to 'no   *)
(* value': the conversion does not end the call, the checks that depend on *)
(* the amount are skipped and validation of the record completes.  Stated  *)
(* for net_total, tax_amount and gross_total: no call on a record with     *)
(* such an amount ends in the exception of the conversion.                 *)
(***************************************************************************)
Unparseable(value) ==
  /\ value.t \notin {"absent", "none", "dec"}
  /\ ~DecimalOfText(str(value)).ok

C16_ParseFailureIsNoValue ==
  (/\ call = "validate"
   /\ \E k \in 1..Len(amount_fields) : Unparseable(get(invoice, amount_fields[k])))
    => outcome.exc # "InvalidOperation"

(***************************************************************************)
(* C17: the invoice_id of a result is a string: the string form of         *)
(* invoice_number when that is present and not blank; otherwise, for an    *)
(* invoice_number that is absent, null, empty or whitespace-only,          *)
(* "UNKNOWN_" followed by the record's source_file, and "UNKNOWN_NO_FILE"  *)
(* when the record has no source_file.                                     *)
(***************************************************************************)
NumberPresent(inv) ==
  /\ inv["invoice_number"].t \notin {"absent", "none"}
  /\ ~(inv["invoice_number"].t = "str"
       /\ \A i \in 1..Len(inv["invoice_number"].s) : IsSpace(inv["invoice_number"].s[i]))

IsText(s) == \E n \in 0..40 : s \in [1..n -> STRING]

C17_InvoiceId ==
  Returned =>
    /\ IsText(outcome.invoice_id)
    /\ NumberPresent(invoice) => outcome.invoice_id = str(invoice["invoice_number"])
    /\ (~NumberPresent(invoice) /\ invoice["source_file"].t = "absent")
         => outcome.invoice_id = <<"U", "N", "K", "N", "O", "W", "N", "_", "N", "O", "_", "F", "I", "L", "E">>
    /\ (~NumberPresent(invoice) /\ invoice["source_file"].t # "absent")
         => outcome.invoice_id = <<"U", "N", "K", "N", "O", "W", "N", "_">> \o str(invoice["source_file"])

\* a whitespace-only invoice number on a record that names its file
C17_Witness ==
  /\ Returned
  /\ invoice["invoice_number"].t = "str"
  /\ Len(invoice["invoice_number"].s) > 0
  /\ ~NumberPresent(invoice)
  /\ invoice["source_file"].t = "str"
  /\ outcome.invoice_id = <<"U", "N", "K", "N", "O", "W", "N", "_", "a", ".", "p", "d", "f">>

(***************************************************************************)
(* C18: extract_from_pdf returns a record for every file and never raises. *)
(* For a file that cannot be opened and for a file without text the record *)
(* is the empty invoice structure, with invoice_number null and            *)
(* source_file the name of the file; when the generative model fails on    *)
(* the text (its call raises, or its answer is no JSON or no JSON object   *)
(* that can take the line_items field) the record is the one the regex     *)
(* extraction finds in the text.                                           *)
(***************************************************************************)
Extracting == call \in {"extract_with_ai", "extract_with_regex"}

IsEmptyInvoice(record, name) ==
  /\ \A f \in {"invoice_number", "invoice_date", "due_date", "seller_name",
               "seller_tax_id", "buyer_name", "buyer_tax_id", "net_total",
               "tax_amount", "gross_total"} : record[f] = None
  /\ record["currency"] = PyStr(<<"U", "S", "D">>)
  /\ record["line_items"] = LineItems("list", 0, <<>>)
  /\ record["source_file"] = PyStr(name)

C18_ExtractionNeverFails ==
  Extracting =>
    /\ extracted.status = "ok"
    /\ extracted.record["source_file"] = PyStr(files[1].name)
    /\ (~files[1].opens \/ files[1].text.blank)
         => IsEmptyInvoice(extracted.record, files[1].name)
    /\ (/\ call = "extract_with_ai"
        /\ files[1].opens
        /\ ~files[1].text.blank
        /\ files[1].answer.kind \in {"error", "not_json", "scalar"})
         => extracted.record =
              [extract_with_regex(files[1].text) EXCEPT
                 !["source_file"] = PyStr(files[1].name)]

\* the answer of the generative model is no JSON, and the record carries what
\* the patterns find in the text
C18_Witness ==
  /\ call = "extract_with_ai"
  /\ files[1].opens
  /\ files[1].answer.kind = "not_json"
  /\ extracted.status = "ok"
  /\ extracted.record["invoice_number"] = PyStr(INV_001)
  /\ extracted.record["gross_total"] = PyFloat(1180000)
  /\ extracted.record["seller_tax_id"] = None
  /\ extracted.record["source_file"] = PyStr(a_pdf)

(***************************************************************************)
(* C19: validate and validate_batch have no effect on the state of the     *)
(* duplicate oracle: the stored invoices are the same after the call as    *)
(* before it.  So a duplicate warning in a result of a batch names a       *)
(* triple that was stored before the batch began: a batch that holds the   *)
(* same triple twice gets no duplicate warning for the second occurrence   *)
(* unless the triple was stored already.                                   *)
(***************************************************************************)
StoredTriple(stored, triple) ==
  <<str(triple[1]), str(triple[2]), str(triple[3])>> \in stored

DuplicateWarningsAreStored(stored, results) ==
  \A i \in 1..Len(results) :
    \A j \in 1..Len(results[i].warnings) :
      results[i].warnings[j].m = "Duplicate invoice detected"
        => StoredTriple(stored, results[i].warnings[j].v)

ValidationLeavesStore ==
  /\ (call = "none" /\ call' \in {"validate", "validate_batch", "validate_json"})
       => rows' = rows
  /\ (call = "none" /\ call' = "validate_batch" /\ report'.status = "ok")
       => DuplicateWarningsAreStored(rows, report'.results)

C19_NoEffectOnStore == [][ValidationLeavesStore]_vars

\* a batch that holds the sample invoice twice, validated against an empty
\* store that can be reached: neither result carries a warning
C19_Witness ==
  /\ BatchReturned
  /\ available
  /\ rows = {}
  /\ Len(batch) >= 2
  /\ batch[1] = sample_invoice
  /\ batch[2] = sample_invoice
  /\ report.results[1].warnings = <<>>
  /\ report.results[2].warnings = <<>>

(***************************************************************************)
(* C20: for a supplied invoice_date the error "Invalid invoice_date        *)
(* format: <value>" is in the result exactly when the value does not parse *)
(* as a calendar date, and the error "Invoice date cannot be in the        *)
(* future" exactly when it parses to a date strictly after the current     *)
(* date; an invoice date equal to the current date yields neither.         *)
(***************************************************************************)
InvalidInvoiceDate ==
  \E e \in Elems(outcome.errors) :
    e.m = "Invalid invoice_date format" /\ e.v = <<invoice["invoice_date"]>>

FutureInvoiceDate ==
  \E e \in Elems(outcome.errors) : e.m = "Invoice date cannot be in the future"

C20_InvoiceDateCheck ==
  (Returned /\ truthy(get(invoice, "invoice_date"))) =>
    /\ InvalidInvoiceDate <=> ~DateParsed(invoice["invoice_date"]).ok
    /\ FutureInvoiceDate <=>
         (/\ DateParsed(invoice["invoice_date"]).ok
          /\ DateParsed(invoice["invoice_date"]).n > today)
    /\ \A e \in Elems(outcome.errors) :
         e.m = "Invalid invoice_date format" => e.v = <<invoice["invoice_date"]>>

\* after midnight the invoice dated 2024-01-16 is dated today: neither error
C20_Witness ==
  /\ Returned
  /\ invoice["invoice_date"] = PyStr(D2024_01_16)
  /\ today = MkDate(2024, 1, 16)
  /\ ~InvalidInvoiceDate
  /\ ~FutureInvoiceDate
  /\ outcome.is_valid

(***************************************************************************)
(* C21: when due_date and invoice_date are both supplied, exactly one of   *)
(* three outcomes holds: both parse as calendar dates and due < invoice,   *)
(* with the error "Due date cannot be before invoice date"; both parse and *)
(* due >= invoice, with no due-date error; one of the two does not parse,  *)
(* with the error "Invalid due_date format: <due_date value>".  When one   *)
(* of the two is not supplied there is no due-date error.                  *)
(***************************************************************************)
DueBeforeInvoice ==
  \E e \in Elems(outcome.errors) : e.m = "Due date cannot be before invoice date"

InvalidDueDate ==
  \E e \in Elems(outcome.errors) :
    e.m = "Invalid due_date format" /\ e.v = <<invoice["due_date"]>>

BothDatesSupplied ==
  truthy(get(invoice, "due_date")) /\ truthy(get(invoice, "invoice_date"))

BothDatesParse ==
  DateParsed(invoice["due_date"]).ok /\ DateParsed(invoice["invoice_date"]).ok

C21_DueDateCheck ==
  Returned =>
    /\ DueBeforeInvoice <=>
         (/\ BothDatesSupplied
          /\ BothDatesParse
          /\ DateParsed(invoice["due_date"]).n < DateParsed(invoice["invoice_date"]).n)
    /\ InvalidDueDate <=> (BothDatesSupplied /\ ~BothDatesParse)
    /\ \A e \in Elems(outcome.errors) :
         e.m = "Invalid due_date format" => e.v = <<invoice["due_date"]>>

(***************************************************************************)
(* C22: a supplied currency is accepted exactly when, compared without     *)
(* regard to case, it is one of EUR, USD, INR, GBP; every other supplied   *)
(* currency yields the error "Invalid currency: <value>. Must be one of    *)
(* ['EUR', 'USD', 'INR', 'GBP']" and is_valid = false.  The record is one  *)
(* that validates to a result when its currency is replaced by USD, so     *)
(* that what happens is due to the currency alone.                         *)
(***************************************************************************)
CurrencySupplied == truthy(get(invoice, "currency"))

CurrencyAllowed ==
  invoice["currency"].t = "str" /\ upper(invoice["currency"].s) \in allowed_currencies

InvalidCurrency ==
  \E e \in Elems(outcome.errors) :
    e.m = "Invalid currency" /\ e.v = <<invoice["currency"]>>

ReturnsWithUSD ==
  validate([invoice EXCEPT !["currency"] = PyStr(USD)], today, rows, available).status
    = "ok"

C22_CurrencyCheck ==
  (call = "validate" /\ CurrencySupplied /\ ReturnsWithUSD) =>
    /\ Returned
    /\ CurrencyAllowed => ~HasError("Invalid currency", "")
    /\ ~CurrencyAllowed => InvalidCurrency /\ ~outcome.is_valid

\* C22 as far as the code keeps it: in every result that validate returns
\* the error is there exactly for a supplied currency that is not allowed
CurrencyCheckWhenReturned ==
  Returned =>
    /\ InvalidCurrency <=> (CurrencySupplied /\ ~CurrencyAllowed)
    /\ InvalidCurrency => ~outcome.is_valid
    /\ \A e \in Elems(outcome.errors) :
         e.m = "Invalid currency" => e.v = <<invoice["currency"]>>

(***************************************************************************)
(* C23: for each of net_total, tax_amount, gross_total whose value parses  *)
(* to a decimal < 0 the result carries the error "Negative amount not      *)
(* allowed: X = V", whether the value is an int, a float, a Decimal or a   *)
(* numeric string; a negative value that is a number is reported a second  *)
(* time as "Negative value in required field: X"; and a record with a      *)
(* negative amount is not valid.                                           *)
(***************************************************************************)
ParsesNegative(v) == Parsed(v).ok /\ Parsed(v).n < 0

NegativeAmountErrors(f) ==
  {i \in 1..Len(outcome.errors) :
     outcome.errors[i].m = "Negative amount not allowed" /\ outcome.errors[i].f = f}

C23_NegativeAmounts ==
  Returned =>
    \A k \in 1..Len(amount_fields) :
      ParsesNegative(invoice[amount_fields[k]]) =>
        /\ Cardinality(NegativeAmountErrors(amount_fields[k])) = 1
        /\ \A i \in NegativeAmountErrors(amount_fields[k]) :
             outcome.errors[i].v = <<PyDecimal(Parsed(invoice[amount_fields[k]]).n)>>
        /\ isNumber(invoice[amount_fields[k]]) =>
             HasError("Negative value in required field", amount_fields[k])
        /\ ~outcome.is_valid

\* "-1000" as net_total is reported once, -180.0 as tax_amount twice
C23_Witness ==
  /\ Returned
  /\ invoice["net_total"] = PyStr(Minus1000)
  /\ invoice["tax_amount"] = PyFloat(-180000)
  /\ Cardinality(NegativeAmountErrors("net_total")) = 1
  /\ ~HasError("Negative value in required field", "net_total")
  /\ Cardinality(NegativeAmountErrors("tax_amount")) = 1
  /\ HasError("Negative value in required field", "tax_amount")

(***************************************************************************)
(* C24: for every line item, at 1-based index N, whose quantity,           *)
(* unit_price and line_total all parse to a number (zero included), the    *)
(* warning "Line item N: quantity * unit_price != line_total" is in the    *)
(* result exactly when |quantity * unit_price - line_total| > 0.01; the    *)
(* message is never among the errors.                                      *)
(***************************************************************************)
ItemsOf(inv) == IF inv["line_items"].t = "list" THEN inv["line_items"].items ELSE <<>>

ItemParseable(item) ==
  /\ item.t = "dict"
  /\ Parsed(item.quantity).ok
  /\ Parsed(item.unit_price).ok
  /\ Parsed(item.line_total).ok

\* |quantity * unit_price - line_total|, in millionths
ItemGap(item) ==
  Abs(Parsed(item.quantity).n * Parsed(item.unit_price).n
        - Parsed(item.line_total).n * 1000)

LineItemWarning(N) ==
  Msg("Line item: quantity * unit_price != line_total", "", <<PyInt(N)>>)

C24_LineItemArithmetic ==
  Returned =>
    /\ \A N \in 1..Len(ItemsOf(invoice)) :
         ItemParseable(ItemsOf(invoice)[N]) =>
           (LineItemWarning(N) \in Elems(outcome.warnings)
              <=> ItemGap(ItemsOf(invoice)[N]) > 10000)
    /\ \A e \in Elems(outcome.errors) :
         e.m # "Line item: quantity * unit_price != line_total"

\* C24 as far as the code keeps it: the equivalence for the items none of
\* whose three values is zero
LineItemArithmeticOfNonZero ==
  Returned =>
    \A N \in 1..Len(ItemsOf(invoice)) :
      (/\ ItemParseable(ItemsOf(invoice)[N])
       /\ Parsed(ItemsOf(invoice)[N].quantity).n # 0
       /\ Parsed(ItemsOf(invoice)[N].unit_price).n # 0
       /\ Parsed(ItemsOf(invoice)[N].line_total).n # 0) =>
        (LineItemWarning(N) \in Elems(outcome.warnings)
           <=> ItemGap(ItemsOf(invoice)[N]) > 10000)

(***************************************************************************)
(* C25: when line_items is a non-empty list and net_total parses, the      *)
(* warning "Line items sum (S) does not match net total (N)" is in the     *)
(* result exactly when |S - net_total| > 0.01, S being the sum of the      *)
(* line_total values that parse (one that does not parse contributes       *)
(* nothing); the message is never among the errors, and it is absent when  *)
(* there are no line items or net_total does not parse.  The record is one *)
(* that validates to a result when its unparseable line_total values are   *)
(* replaced by null, so that what happens is due to the sum check alone.   *)
(***************************************************************************)
RECURSIVE SumOfParseable(_, _)
SumOfParseable(items, k) ==
  IF k > Len(items) THEN 0
  ELSE (IF Parsed(items[k].line_total).ok THEN Parsed(items[k].line_total).n ELSE 0)
         + SumOfParseable(items, k + 1)

HasLineItems(inv) ==
  /\ Len(ItemsOf(inv)) > 0
  /\ \A k \in 1..Len(ItemsOf(inv)) : ItemsOf(inv)[k].t = "dict"

WithoutUnparseableTotals(inv) ==
  [inv EXCEPT !["line_items"].items =
     [k \in 1..Len(@) |->
        IF @[k].t = "dict" /\ ~Parsed(@[k].line_total).ok
        THEN [@[k] EXCEPT !.line_total = None]
        ELSE @[k]]]

SumWarnings ==
  {w \in Elems(outcome.warnings) : w.m = "Line items sum does not match net total"}

SumWarning(inv) ==
  Msg("Line items sum does not match net total", "",
      <<PyDecimal(SumOfParseable(ItemsOf(inv), 1)), PyDecimal(Parsed(inv["net_total"]).n)>>)

SumGap(inv) == Abs(SumOfParseable(ItemsOf(inv), 1) - Parsed(inv["net_total"]).n)

C25_LineItemsSum ==
  (/\ call = "validate"
   /\ HasLineItems(invoice)
   /\ Parsed(invoice["net_total"]).ok
   /\ validate(WithoutUnparseableTotals(invoice), today, rows, available).status = "ok") =>
    /\ Returned
    /\ SumWarnings = IF SumGap(invoice) > 10 THEN {SumWarning(invoice)} ELSE {}
    /\ \A e \in Elems(outcome.errors) :
         e.m # "Line items sum does not match net total"

\* C25 as far as the code keeps it: the sum check in the results that
\* validate returns
LineItemsSumWhenReturned ==
  Returned =>
    /\ \A e \in Elems(outcome.errors) :
         e.m # "Line items sum does not match net total"
    /\ IF HasLineItems(invoice) /\ Parsed(invoice["net_total"]).ok
       THEN SumWarnings = IF SumGap(invoice) > 10 THEN {SumWarning(invoice)} ELSE {}
       ELSE SumWarnings = {}

(***************************************************************************)
(* C26: the warning "Unusually high gross total: G (threshold: H)" is in   *)
(* the result exactly when gross_total parses and is strictly greater than *)
(* the threshold of 1,000,000 (a gross total equal to the threshold gives  *)
(* none); the message is never among the errors, so a record with a very   *)
(* high gross total can be valid.                                          *)
(***************************************************************************)
HighWarnings ==
  {w \in Elems(outcome.warnings) : w.m = "Unusually high gross total"}

HighGross(inv) ==
  Parsed(inv["gross_total"]).ok /\ Parsed(inv["gross_total"]).n > 1000000 * 1000

C26_HighAmount ==
  Returned =>
    /\ HighWarnings =
         IF HighGross(invoice)
         THEN {Msg("Unusually high gross total", "",
                   <<PyDecimal(Parsed(invoice["gross_total"]).n),
                     PyDecimal(1000000 * 1000)>>)}
         ELSE {}
    /\ \A e \in Elems(outcome.errors) : e.m # "Unusually high gross total"

\* a gross total of 1,000,000.01 whose totals agree: warned about, and valid
C26_Witness ==
  /\ Returned
  /\ HighGross(invoice)
  /\ HighWarnings # {}
  /\ outcome.is_valid

(***************************************************************************)
(* C27: in every result, the warning "Due date is missing" is present      *)
(* exactly when due_date is missing, "Seller tax ID is missing" exactly    *)
(* when seller_tax_id is, "Buyer tax ID is missing" exactly when           *)
(* buyer_tax_id is, and "No line items found in invoice" exactly when      *)
(* line_items is missing or empty; none of the four is ever an error, and  *)
(* a record that lacks all four can be valid.  A field is missing when it  *)
(* is absent, null or holds no value (the empty string, zero).  The record *)
(* is one that validates to a result when its line_items is replaced by    *)
(* the empty list.                                                         *)
(***************************************************************************)
NoValue(v) ==
  missing(v) \/ (v.t = "str" /\ v.s = <<>>) \/ (isNumber(v) /\ v.n = 0)

NoItems(li) == li.t \in {"absent", "none"} \/ (li.t = "list" /\ li.items = <<>>)

Warnings(m) == {i \in 1..Len(outcome.warnings) : outcome.warnings[i] = Msg(m, "", <<>>)}

OptionalMessages ==
  {"Due date is missing", "Seller tax ID is missing", "Buyer tax ID is missing",
   "No line items found in invoice"}

\* the four warnings in the results that validate returns
MissingOptionalWhenReturned ==
  Returned =>
    /\ Cardinality(Warnings("Due date is missing"))
         = IF NoValue(invoice["due_date"]) THEN 1 ELSE 0
    /\ Cardinality(Warnings("Seller tax ID is missing"))
         = IF NoValue(invoice["seller_tax_id"]) THEN 1 ELSE 0
    /\ Cardinality(Warnings("Buyer tax ID is missing"))
         = IF NoValue(invoice["buyer_tax_id"]) THEN 1 ELSE 0
    /\ Cardinality(Warnings("No line items found in invoice"))
         = IF NoItems(invoice["line_items"]) THEN 1 ELSE 0
    /\ \A e \in Elems(outcome.errors) : e.m \notin OptionalMessages

\* a record whose line_items is missing or empty gets its result
MissingItemsReturn ==
  (/\ call = "validate"
   /\ NoItems(invoice["line_items"])
   /\ validate([invoice EXCEPT !["line_items"] = LineItems("list", 0, <<>>)],
               today, rows, available).status = "ok") =>
    Returned

C27_MissingOptional == MissingOptionalWhenReturned /\ MissingItemsReturn

\* the record without its four optional fields: four warnings, and valid
MissingAllFourAndValid ==
  /\ Returned
  /\ invoice = without_optional
  /\ \A m \in OptionalMessages : Cardinality(Warnings(m)) = 1
  /\ outcome.is_valid

(***************************************************************************)
(* C28: under any sequence and any interleaving of save_invoice calls the  *)
(* invoices table never holds two rows with the same (invoice_number,      *)
(* seller_name, invoice_date); a save_invoice whose triple is already      *)
(* stored inserts no row and returns the id of the existing row, and all   *)
(* callers that save the same triple obtain the same id.  The calls are    *)
(* those that return, of records the table can hold.                       *)
(***************************************************************************)
Through(p) ==
  /\ procs[p].pc = "done"
  /\ ~procs[p].raised
  /\ insert_binds(procs[p].arg)
  /\ not_null(procs[p].arg)

NoTwoRowsOfOneTriple == \A i, j \in DOMAIN table : table[i] = table[j] => i = j

StoredTripleKeepsItsId ==
  \A p \in Procs :
    (Through(p) /\ procs[p].had > 0) =>
      (procs[p].id = 0 /\ procs[p].ret = procs[p].had)

SameTripleSameId ==
  \A p, q \in Procs :
    (Through(p) /\ Through(q) /\ triple_of(procs[p].arg) = triple_of(procs[q].arg)) =>
      procs[p].ret = procs[q].ret

C28_StoreUniqueness ==
  NoTwoRowsOfOneTriple /\ StoredTripleKeepsItsId /\ SameTripleSameId

\* the same of the calls whose INSERT never gave up on a lock
UniquenessOfUncontendedSaves ==
  /\ NoTwoRowsOfOneTriple
  /\ \A p \in Procs :
       (Through(p) /\ ~procs[p].busy /\ procs[p].had > 0) =>
         (procs[p].id = 0 /\ procs[p].ret = procs[p].had)
  /\ \A p, q \in Procs :
       (Through(p) /\ Through(q) /\ ~procs[p].busy /\ ~procs[q].busy
          /\ triple_of(procs[p].arg) = triple_of(procs[q].arg)) =>
         procs[p].ret = procs[q].ret

\* a call of a stored triple ends with -1 behind the lock of another call
StoredTripleSavedBehindALock ==
  \E p \in Procs : Through(p) /\ procs[p].busy /\ procs[p].had > 0 /\ procs[p].ret = -1

(***************************************************************************)
(* C29: after any sequence of save_invoice, check_duplicate and            *)
(* clear_all_data calls, check_duplicate(n, s, d) returns true exactly     *)
(* when a save_invoice with the triple has succeeded since the last        *)
(* clear_all_data; check_duplicate changes no stored data, and when the    *)
(* lookup fails it answers false without raising.  saved holds the triples *)
(* of the save_invoice calls that returned an id since the table was last  *)
(* cleared.                                                                *)
(***************************************************************************)
LookupFails ==
  \/ ~available
  \/ ~(bindable(lookup.n) /\ bindable(lookup.s) /\ bindable(lookup.d))

SavedSinceCleared == Row(lookup.n, lookup.s, lookup.d) \in saved

C29_DuplicateOracle ==
  call = "check_duplicate" =>
    /\ lookup.written = {}
    /\ ~lookup.raised
    /\ lookup.dup <=> (~LookupFails /\ SavedSinceCleared)

\* the same of the lookups that find the store reachable
DuplicateOracleOfReachableStore ==
  (call = "check_duplicate" /\ available) =>
    /\ lookup.written = {}
    /\ ~lookup.raised
    /\ lookup.dup <=> (~LookupFails /\ SavedSinceCleared)

\* a lookup with the store unreachable ends in the exception of the connect
LookupRaises == call = "check_duplicate" /\ ~available /\ lookup.raised

\* the triple is found again after it was cleared and saved again
FoundAfterClearAndSave ==
  /\ call = "check_duplicate"
  /\ lookup.dup
  /\ sqlite_sequence > Cardinality(DOMAIN table)

(***************************************************************************)
(* C30: the process command validates every record of the run before it    *)
(* saves any record of the run, so a run over invoices that are not yet    *)
(* stored produces no duplicate warning; a second identical run produces a *)
(* duplicate warning for every invoice the first run saved, and errors and *)
(* is_valid of every result are the same in both runs.  The two runs are   *)
(* made on the same day and both end with a report.                        *)
(***************************************************************************)
WarnsOfDuplicate(validated) ==
  \E j \in 1..Len(validated.warnings) :
    validated.warnings[j].m = "Duplicate invoice detected"

\* none of the invoices is in a store
NotYetStored(invoices) ==
  \A k \in 1..Len(invoices) :
    triple_of(invoices[k]) \notin rows \cup Range(elsewhere.table)

ValidatedBeforeSaved ==
  (call = "none" /\ call' = "process_command" /\ run'.report.status = "ok"
     /\ NotYetStored(batch')) =>
    \A k \in 1..Len(batch') : ~WarnsOfDuplicate(run'.report.results[k])

SecondRun ==
  /\ call = "process_command"
  /\ first.kept
  /\ first.files = files
  /\ first.batch = batch
  /\ first.today = today
  /\ first.run.report.status = "ok"
  /\ run.report.status = "ok"

SecondRunWarns ==
  SecondRun =>
    \A k \in 1..Len(batch) :
      /\ (k \in DOMAIN first.run.ids /\ first.run.ids[k] > 0)
           => WarnsOfDuplicate(run.report.results[k])
      /\ run.report.results[k].errors = first.run.report.results[k].errors
      /\ run.report.results[k].is_valid = first.run.report.results[k].is_valid

C30_PipelineOrdering == [][ValidatedBeforeSaved]_vars /\ []SecondRunWarns

\* the first part alone
C30_NoWarningInAFreshRun == [][ValidatedBeforeSaved]_vars

\* the second part under the database_path of config.py
SecondRunWarnsByDefault == database_path = "invoices.db" => SecondRunWarns

\* a run has saved the triple of two of its records and warned of neither
SavedTwiceInAFreshRun ==
  /\ call = "process_command"
  /\ Len(run.ids) = 2
  /\ run.ids[1] > 0
  /\ run.ids[2] = run.ids[1]
  /\ \A k \in 1..2 : ~WarnsOfDuplicate(run.report.results[k])

\* the second run warns of the invoice the first run saved
SecondRunHasWarned ==
  /\ SecondRun
  /\ \E k \in DOMAIN first.run.ids :
       first.run.ids[k] > 0 /\ WarnsOfDuplicate(run.report.results[k])

====
